---- MODULE Spec2Model ----
(***************************************************************************)
(* Model of the option backtest engine (src/backtest_engine.py), of the    *)
(* strike selector and the direction selector it calls                     *)
(* (src/strategy_config.py, src/strategy_selector.py) and of the signal    *)
(* library (src/signal_optimization/signal_library.py).                    *)
(*                                                                         *)
(* Number formats.  Python floats are modelled in fixed point:             *)
(*   - money (underlying price, strike, premium, capital, pnl): cents;     *)
(*   - fractions given in the configuration (profit_target, stop_loss,     *)
(*     position_size): percent;                                            *)
(*   - quotients the code computes (pnl_pct): exact rationals [n, d];      *)
(*   - dates: day numbers; a bar's timestamp is a day number plus the      *)
(*     hour of day the price provider stamps on its bars.                  *)
(***************************************************************************)
EXTENDS Integers, Sequences, FiniteSets, TLC

VARIABLES
    pc,               \* position in run_backtest: "start", "loop", "done"
    cfg,              \* arguments of run_backtest and of the constructor
    data,             \* what the price provider returned: number of bars, hour stamp
    i,                \* index of the next bar of the day loop
    date,             \* day number of the last bar processed
    current_capital,  \* self.current_capital
    open_trade,       \* the local open_trade (NoTrade models None)
    trades,           \* the local list trades
    equity_curve,     \* the local list equity_curve
    exit_log,         \* the exit decisions written to the log, one per in-loop exit
    n_entries,        \* the number of "Entry:" lines written to the log
    result,           \* the BacktestResult returned (NoResult before the return)
    last_close,       \* the close of the last bar processed
    probe,            \* a call of a pure function and its return value
    peer              \* a second run_backtest call on the same object (NoPeer: none)

vars == <<pc, cfg, data, i, date, current_capital, open_trade, trades,
          equity_curve, exit_log, n_entries, result, last_close, probe, peer>>

-----------------------------------------------------------------------------
(* Bounds of the model                                                     *)

\* The longest price series explored.
MaxBars == 23

\* The number of strategies or symbols of a batch.
BatchSize == 3

\* The length of the series of a run that passes the 50-day warm-up of the
\* signal library.
WarmBars == 52

-----------------------------------------------------------------------------
(* Program constants                                                       *)

MinBars == 20            \* len(data) < 20 soft-fails; entries need i >= 20
ExpiryDays == 30         \* every position expires 30 days after its entry
ContractSize == 100      \* shares per option contract
RsiWindow == 14          \* rolling(14) of the RSI
BbWindow == 20           \* rolling(20) of the Bollinger bands
BbPercentileWindow == 60 \* rolling(60) of the band-width percentile
TimeValueFloor == 5      \* max(time_value, 0.05), in cents
DecayRate == 5           \* decay_rate of the OTM factor
NaN == -999999           \* an indicator inside its warm-up window
None == -999999999       \* an Optional field that is not set

-----------------------------------------------------------------------------
(* Arithmetic                                                              *)

Abs(x) == IF x < 0 THEN -x ELSE x

Max(a, b) == IF a >= b THEN a ELSE b

\* Python's int(n / d) for d > 0: truncation toward zero.
IntTrunc(n, d) == IF n >= 0 THEN n \div d ELSE -((-n) \div d)

\* Python's round(n / d) for d > 0: round half to even.
RoundHalfEven(n, d) ==
    LET q == n \div d
        r == n % d
    IN  IF 2 * r < d THEN q
        ELSE IF 2 * r > d THEN q + 1
        ELSE IF q % 2 = 0 THEN q ELSE q + 1

\* n / d rounded to the nearest integer (fixed-point quantisation), d > 0.
RoundDiv(n, d) == (2 * n + d) \div (2 * d)

RECURSIVE Gcd(_, _)
Gcd(a, b) == IF b = 0 THEN a ELSE Gcd(b, a % b)

\* Exact rationals [n, d], d # 0.
Rat(n, d) == [n |-> n, d |-> d]

RatNorm(r) ==
    LET g == Gcd(Abs(r.n), Abs(r.d))
        s == IF r.d < 0 THEN -1 ELSE 1
    IN  IF g = 0 THEN r ELSE [n |-> s * (r.n \div g), d |-> s * (r.d \div g)]

RatEq(a, b) == RatNorm(a) = RatNorm(b)

\* r >= p / 100 and r <= p / 100 for a rational r and a percentage p.
RatGePct(r, p) == LET x == RatNorm(r) IN x.n * 100 >= p * x.d
RatLePct(r, p) == LET x == RatNorm(r) IN x.n * 100 <= p * x.d

-----------------------------------------------------------------------------
(* Option valuation model: OptionBacktest._estimate_option_value           *)

\* Fixed-point scale of the exponential: ExpNeg returns 10000 * exp(-y).
ExpScale == 10000

\* 10000 * exp(-1), the range-reduction step of ExpNeg.
ExpMinusOne == 3679

\* 10000 * exp(-y / 10000) for 0 <= y <= 10000, by the Taylor series of exp.
ExpNegSmall(y) ==
    LET t1 == y
        t2 == (t1 * y) \div (2 * ExpScale)
        t3 == (t2 * y) \div (3 * ExpScale)
        t4 == (t3 * y) \div (4 * ExpScale)
        t5 == (t4 * y) \div (5 * ExpScale)
        t6 == (t5 * y) \div (6 * ExpScale)
        t7 == (t6 * y) \div (7 * ExpScale)
        t8 == (t7 * y) \div (8 * ExpScale)
    IN  ExpScale - t1 + t2 - t3 + t4 - t5 + t6 - t7 + t8

\* np.exp(-y / 10000), scaled by 10000, for y >= 0.
RECURSIVE ExpNeg(_)
ExpNeg(y) ==
    IF y > ExpScale
    THEN (ExpMinusOne * ExpNeg(y - ExpScale)) \div ExpScale
    ELSE ExpNegSmall(y)

\* intrinsic value, cents
Intrinsic(underlying_price, strike, option_type) ==
    IF option_type = "long_call"
    THEN Max(underlying_price - strike, 0)
    ELSE Max(strike - underlying_price, 0)

\* time value for days_to_expiry > 0, before the floor, cents
RawTimeValue(underlying_price, strike, days_to_expiry) ==
    LET \* moneyness * decay_rate, scaled by 10000
        y == (DecayRate * Abs(underlying_price - strike) * ExpScale)
                 \div underlying_price
        \* underlying_price * 0.015 * (days_to_expiry / 30), in 1/100 cent
        base_time_value == (underlying_price * 15 * days_to_expiry) \div 300
        otm_factor == ExpNeg(y)
    IN  RoundDiv(base_time_value * otm_factor, 100 * ExpScale)

\* the mutation of TimeValue that forgets the floor
TimeValueNoFloor(underlying_price, strike, days_to_expiry) ==
    IF days_to_expiry > 0
    THEN RawTimeValue(underlying_price, strike, days_to_expiry)
    ELSE 0

TimeValue(underlying_price, strike, days_to_expiry) ==
    IF days_to_expiry > 0
    THEN Max(RawTimeValue(underlying_price, strike, days_to_expiry),
             TimeValueFloor)
    ELSE 0

EstimateOptionValue(underlying_price, strike, option_type, days_to_expiry) ==
    Intrinsic(underlying_price, strike, option_type)
        + TimeValue(underlying_price, strike, days_to_expiry)

-----------------------------------------------------------------------------
(* Strike selection: DynamicOTMSelector and OptionBacktest._round_strike   *)

\* STRATEGIES: call and put multipliers of each profile, percent
STRATEGIES ==
    [ultra_conservative |-> [call_multiplier |-> 102, put_multiplier |-> 98],
     conservative       |-> [call_multiplier |-> 105, put_multiplier |-> 95],
     balanced           |-> [call_multiplier |-> 108, put_multiplier |-> 92],
     moderate           |-> [call_multiplier |-> 112, put_multiplier |-> 88],
     aggressive         |-> [call_multiplier |-> 115, put_multiplier |-> 85],
     speculative        |-> [call_multiplier |-> 120, put_multiplier |-> 80]]

\* Comparisons of floats that may be NaN: every comparison with NaN is False.
Gt(a, b) == a # NaN /\ b # NaN /\ a > b
Lt(a, b) == a # NaN /\ b # NaN /\ a < b
Ge(a, b) == a # NaN /\ b # NaN /\ a >= b
Le(a, b) == a # NaN /\ b # NaN /\ a <= b

\* abs() of a float that may be NaN
Fabs(x) == IF x = NaN THEN NaN ELSE Abs(x)

\* Step 1: the base profile from volatility (thousandths).
VolatilityBase(volatility) ==
    IF Gt(volatility, 700) THEN "conservative"
    ELSE IF Gt(volatility, 500) THEN "balanced"
    ELSE IF Gt(volatility, 300) THEN "moderate"
    ELSE "aggressive"

\* Step 2: momentum (thousandths).
MomentumAdjust(base, momentum) ==
    LET abs_momentum == IF momentum = NaN THEN NaN ELSE Abs(momentum)
    IN  IF Gt(abs_momentum, 500)
        THEN IF base = "conservative" /\ Gt(abs_momentum, 700) THEN "balanced"
             ELSE IF base = "balanced" /\ Gt(abs_momentum, 800) THEN "moderate"
             ELSE base
        ELSE base

\* Step 3: band-width percentile (thousandths).
BandAdjust(base, bb_percentile) ==
    IF Lt(bb_percentile, 300)
    THEN IF base = "conservative" THEN "balanced"
         ELSE IF base = "balanced" THEN "moderate"
         ELSE base
    ELSE IF Gt(bb_percentile, 700)
    THEN IF base = "moderate" THEN "balanced"
         ELSE IF base = "aggressive" THEN "moderate"
         ELSE base
    ELSE base

\* Step 4: time to expiry.
ExpiryAdjust(base, days_to_expiry) ==
    IF days_to_expiry < 15
    THEN IF base \in {"aggressive", "speculative"} THEN "moderate"
         ELSE IF base = "moderate" THEN "balanced"
         ELSE base
    ELSE base

\* Step 5: risk appetite.
RiskAdjust(base, risk_appetite) ==
    IF risk_appetite = "ultra_conservative"
    THEN IF base # "ultra_conservative" THEN "conservative" ELSE base
    ELSE IF risk_appetite = "aggressive"
    THEN IF base = "conservative" THEN "balanced"
         ELSE IF base = "balanced" THEN "moderate"
         ELSE IF base = "moderate" THEN "aggressive"
         ELSE base
    ELSE base

\* select_otm_strategy: the name of the profile selected
SelectOtmStrategy(volatility, momentum, bb_percentile, days_to_expiry, risk_appetite) ==
    RiskAdjust(
        ExpiryAdjust(
            BandAdjust(
                MomentumAdjust(VolatilityBase(volatility), momentum),
                bb_percentile),
            days_to_expiry),
        risk_appetite)

\* _round_strike of price = x / 10000 dollars; the strike in cents
RoundStrike(x) ==
    IF x < 10 * 10000 THEN RoundHalfEven(2 * x, 10000) * 50
    ELSE IF x < 50 * 10000 THEN RoundHalfEven(x, 10000) * 100
    ELSE IF x < 100 * 10000 THEN RoundHalfEven(x, 5 * 10000) * 500
    ELSE RoundHalfEven(x, 10 * 10000) * 1000

\* Lines 282-312: the strike of a new position from the day's row.
\* volatility = bb_width / 0.08 and momentum = rsi / 50 - 1, in thousandths,
\* with bb_width in basis points and rsi in points.
SelectStrike(current_price, current_strategy, row) ==
    LET volatility == IF row.bb_width = NaN THEN NaN
                      ELSE (row.bb_width * 1000) \div 800
        momentum == IF row.rsi = NaN THEN NaN ELSE row.rsi * 20 - 1000
        otm_config == STRATEGIES[SelectOtmStrategy(
                          volatility, momentum, row.bb_percentile,
                          ExpiryDays, "balanced")]
    IN  IF current_strategy = "long_call"
        THEN RoundStrike(current_price * otm_config.call_multiplier)
        ELSE RoundStrike(current_price * otm_config.put_multiplier)

-----------------------------------------------------------------------------
(* Inputs of a run                                                         *)

\* Closing prices of the underlying, cents.
Prices == {10000, 10750}

\* Calendar days between two consecutive bars once the warm-up is over (a
\* trading day, a month's halt); the warm-up bars are consecutive days.
Gaps == {1, 30}

\* Hour of day the provider stamps on its daily bars (pd.to_datetime(t, unit='ms')).
BarHours == {0, 5}

\* Live option quotes: None (no data, error, timeout) or a price in cents.
Quotes == {None, 2000}

\* Values of the indicators of a row once their windows are full.
RsiValues == {10, 50}
BbWidths == {800}
BbPercentiles == {200, 800}

\* Lengths of the series the provider returns (0: nothing).
ShortBarCounts == {0, 5, 19}
BarCounts == ShortBarCounts \cup (MinBars .. MaxBars)

InitialCapitals == {40000}
Strategies == {"long_put", "auto"}
EntrySignals == {"rsi_oversold", "bb_compression"}
ProfitTargets == {50}
StopLosses == {-80}
MaxHoldingDays == {30, 45}
PositionSizes == {50}

\* Rows _calculate_indicators can produce at index idx: an indicator is NaN
\* until its rolling window is full.
RowsAt(idx) ==
    [rsi : IF idx < RsiWindow - 1 THEN {NaN} ELSE RsiValues,
     bb_width : IF idx < BbWindow - 1 THEN {NaN} ELSE BbWidths,
     bb_percentile : IF idx < BbWindow + BbPercentileWindow - 2
                     THEN {NaN} ELSE BbPercentiles]

-----------------------------------------------------------------------------
(* State of a run                                                          *)

NoTrade == [status |-> "none"]
NoResult == [status |-> "none"]
NoProbe == [op |-> "none"]
NoPeer == [role |-> "none"]

\* Trade(...) as constructed at lines 327-336
NewTrade(entry_date, strategy, strike, entry_price, shares, expiry, entry_underlying) ==
    [entry_date |-> entry_date, strategy |-> strategy, strike |-> strike,
     entry_price |-> entry_price, shares |-> shares, expiry |-> expiry,
     exit_date |-> None, exit_price |-> None, pnl |-> None,
     pnl_pct |-> Rat(None, 1), status |-> "open",
     entry_underlying |-> entry_underlying, exit_underlying |-> None]

Init ==
    /\ pc = "start"
    /\ cfg \in [initial_capital : InitialCapitals,
                strategy : Strategies,
                entry_signal : EntrySignals,
                profit_target : ProfitTargets,
                stop_loss : StopLosses,
                max_holding_days : MaxHoldingDays,
                position_size : PositionSizes]
    /\ data \in [n_bars : BarCounts, hour : BarHours]
    /\ i = 0
    /\ date = 0
    /\ current_capital = cfg.initial_capital
    /\ open_trade = NoTrade
    /\ trades = <<>>
    /\ equity_curve = <<>>
    /\ exit_log = <<>>
    /\ n_entries = 0
    /\ result = NoResult
    /\ last_close = None
    /\ probe = NoProbe
    /\ peer = NoPeer

-----------------------------------------------------------------------------
(* Arithmetic of exact rationals                                           *)

\* a < b for rationals with positive denominators (no cross product, so
\* that large equities do not overflow)
RECURSIVE RatLess(_, _)
RatLess(a, b) ==
    LET qa == a.n \div a.d
        qb == b.n \div b.d
        ra == a.n % a.d
        rb == b.n % b.d
    IN  IF qa # qb THEN qa < qb
        ELSE IF ra = 0 THEN rb > 0
        ELSE IF rb = 0 THEN FALSE
        ELSE RatLess(Rat(b.d, rb), Rat(a.d, ra))

\* Sums and products of rationals, over the least common denominator and
\* with the cross factors cancelled first so that the terms stay small
RatAdd(a, b) ==
    LET x == RatNorm(a)
        y == RatNorm(b)
        g == Gcd(x.d, y.d)
    IN  RatNorm(Rat(x.n * (y.d \div g) + y.n * (x.d \div g), (x.d \div g) * y.d))

RatMul(a, b) ==
    LET x == RatNorm(Rat(a.n, b.d))
        y == RatNorm(Rat(b.n, a.d))
    IN  RatNorm(Rat(x.n * y.n, x.d * y.d))

-----------------------------------------------------------------------------
(* The signal library: detect_signal and evaluate_signal_combination       *)

\* get_signal_definitions: the registered signals with their default weights
\* in thousandths
SignalDefinitions ==
    {<<"bb_compression", 150>>, <<"rsi_oversold", 120>>, <<"rsi_overbought", 120>>,
     <<"volume_surge", 100>>, <<"ma_crossover", 80>>, <<"ma_crossunder", 80>>,
     <<"price_above_ma50", 50>>, <<"macd_crossover", 100>>, <<"macd_divergence", 80>>,
     <<"low_volatility", 60>>, <<"williams_oversold", 60>>, <<"williams_overbought", 60>>,
     <<"bb_breakout", 80>>, <<"cci_extreme", 60>>, <<"momentum_reversal", 70>>}

SignalNames == {x[1] : x \in SignalDefinitions}

RatZero == Rat(0, 1)

RatOne == Rat(1, 1)

\* min(strength, 1.0)
MinOne(strength) == IF RatLess(RatOne, strength) THEN RatOne ELSE strength

Signal(triggered, strength) ==
    [triggered |-> triggered, strength |-> IF triggered THEN RatNorm(strength) ELSE RatZero]

\* the mutation of DetectSignal that drops the warm-up guard of line 226
DetectSignalUnguarded(signal_name, idx, f) ==
    CASE signal_name = "rsi_oversold" -> Signal(Lt(f.rsi, 30), Rat(30 - f.rsi, 30))
      [] signal_name = "rsi_overbought" -> Signal(Gt(f.rsi, 70), Rat(f.rsi - 70, 30))
      [] signal_name = "williams_oversold" ->
           Signal(Lt(f.williams_r, -80), MinOne(Rat(-80 - f.williams_r, 20)))
      [] signal_name = "williams_overbought" ->
           Signal(Gt(f.williams_r, -20), MinOne(Rat(f.williams_r + 20, 20)))
      [] OTHER -> Signal(FALSE, RatZero)

\* detect_signal(signal_name, data, idx) on the frame f = the values of
\* data.iloc[idx] and data.iloc[idx - 1] the detectors read.  Prices, macd and
\* bands are in cents; rsi, williams_r and cci in points; bb_width_pct,
\* volume_ratio, atr_pct and momentum in thousandths.
DetectSignal(signal_name, idx, f) ==
    IF idx < 50 THEN Signal(FALSE, RatZero)
    ELSE CASE signal_name = "bb_compression" ->
                Signal(Lt(f.bb_width_pct, 300), Rat(1000 - f.bb_width_pct, 1000))
           [] signal_name = "rsi_oversold" ->
                Signal(Lt(f.rsi, 30), Rat(30 - f.rsi, 30))
           [] signal_name = "rsi_overbought" ->
                Signal(Gt(f.rsi, 70), Rat(f.rsi - 70, 30))
           [] signal_name = "volume_surge" ->
                Signal(Gt(f.volume_ratio, 1500), MinOne(Rat(f.volume_ratio - 1500, 1500)))
           [] signal_name = "ma_crossover" ->
                Signal(Gt(f.ma5, f.ma20) /\ Le(f.prev_ma5, f.prev_ma20),
                       Rat(Abs(f.ma5 - f.ma20), f.ma20))
           [] signal_name = "ma_crossunder" ->
                Signal(Lt(f.ma5, f.ma20) /\ Ge(f.prev_ma5, f.prev_ma20),
                       Rat(Abs(f.ma5 - f.ma20), f.ma20))
           [] signal_name = "price_above_ma50" ->
                Signal(Gt(f.close, f.ma50), MinOne(Rat(f.close - f.ma50, f.ma50)))
           [] signal_name = "macd_crossover" ->
                Signal(Gt(f.macd, f.macd_signal) /\ Le(f.prev_macd, f.prev_macd_signal),
                       MinOne(Rat(Abs(f.macd_hist) * 100, f.close)))
           [] signal_name = "macd_divergence" ->
                IF idx < 60 THEN Signal(FALSE, RatZero)
                ELSE Signal(f.price_min_idx # f.macd_min_idx /\ Lt(f.close, f.recent_first),
                            Rat(7, 10))
           [] signal_name = "low_volatility" ->
                Signal(Lt(f.atr_pct, 300), Rat(1000 - f.atr_pct, 1000))
           [] signal_name = "williams_oversold" ->
                Signal(Lt(f.williams_r, -80), MinOne(Rat(-80 - f.williams_r, 20)))
           [] signal_name = "williams_overbought" ->
                Signal(Gt(f.williams_r, -20), MinOne(Rat(f.williams_r + 20, 20)))
           [] signal_name = "bb_breakout" ->
                Signal(Gt(f.close, f.bb_upper) \/ Lt(f.close, f.bb_lower),
                       IF Gt(f.close, f.bb_upper)
                       THEN MinOne(Rat(f.close - f.bb_upper, f.bb_middle))
                       ELSE MinOne(Rat(f.bb_lower - f.close, f.bb_middle)))
           [] signal_name = "cci_extreme" ->
                Signal(Gt(Fabs(f.cci), 100), MinOne(Rat(Abs(f.cci), 200)))
           [] signal_name = "momentum_reversal" ->
                Signal(f.momentum # NaN /\ f.prev_momentum # NaN
                           /\ f.momentum * f.prev_momentum < 0,
                       MinOne(Rat(Abs(f.momentum), 1000)))
           [] OTHER -> Signal(FALSE, RatZero)

\* Lines 361-372: signal_details, one entry per triggered signal of the map
SignalDetails(signal_weights, idx, f) ==
    {[name |-> x[1],
      strength |-> DetectSignal(x[1], idx, f).strength,
      contribution |-> RatMul(Rat(x[2], 1000), DetectSignal(x[1], idx, f).strength)] :
        x \in {y \in signal_weights : DetectSignal(y[1], idx, f).triggered}}

RECURSIVE SumContribution(_)
SumContribution(details) ==
    IF details = {} THEN RatZero
    ELSE LET d == CHOOSE x \in details : TRUE
         IN  RatAdd(d.contribution, SumContribution(details \ {d}))

\* The bullish list of _analyze_signal_direction in strategy_selector.py
BullishSignalsOfSelector ==
    {"rsi_oversold", "ma_crossover", "macd_crossover", "williams_oversold", "bb_breakout"}

\* Lines 378-386: the two fixed partitions
BullishSignals ==
    {"rsi_oversold", "ma_crossover", "macd_crossover", "williams_oversold", "momentum_reversal"}

BearishSignals == {"rsi_overbought", "ma_crossunder", "williams_overbought"}

EvaluateSignalCombination(idx, f, signal_weights) ==
    LET signal_details == SignalDetails(signal_weights, idx, f)
        total_score == SumContribution(signal_details)
        bullish_score == SumContribution({d \in signal_details : d.name \in BullishSignals})
        bearish_score == SumContribution({d \in signal_details : d.name \in BearishSignals})
        direction ==
            IF RatLess(bearish_score, bullish_score) THEN "long_call"
            ELSE IF RatLess(bullish_score, bearish_score) THEN "long_put"
            ELSE IF Lt(f.rsi, 50) THEN "long_call" ELSE "long_put"
    IN  [total_score |-> total_score, direction |-> direction,
         signal_details |-> signal_details]

-----------------------------------------------------------------------------
(* Pricing and the entry and exit rules                                    *)

\* (expiry - date).days at lines 205 and 228: date is the bar's timestamp,
\* hour of day included; timedelta.days is the floor of the difference.
MarkDaysToExpiry(expiry, day, hour) == ((expiry - day) * 24 - hour) \div 24

\* the mutation of GetOptionPrice that returns whatever quote the lookup found
GetOptionPriceAnyQuote(quote, underlying_price, strike, option_type, days_to_expiry) ==
    IF quote # None
    THEN quote
    ELSE EstimateOptionValue(underlying_price, strike, option_type,
                             days_to_expiry)

\* _get_option_price: self.use_real_prices is True whatever the constructor
\* was given (line 89), so the quote is always tried first.  Within one run no
\* cache key repeats, so the quote is the provider's answer.
GetOptionPrice(quote, underlying_price, strike, option_type, days_to_expiry) ==
    IF quote # None /\ quote > 0
    THEN quote
    ELSE EstimateOptionValue(underlying_price, strike, option_type,
                             days_to_expiry)

\* The weight maps given as entry_signal.  A dict is written by its label in
\* this table, a named signal by its name.
EntryWeightMaps ==
    [weights_oversold |-> {<<"rsi_oversold", 600>>, <<"williams_oversold", 400>>}]

\* isinstance(signal_type, dict)
IsDict(signal_type) == signal_type \in DOMAIN EntryWeightMaps

\* the mutation of CheckEntrySignal that asks for a score above the threshold
CheckEntrySignalAbove(row, signal_type, idx) ==
    IF IsDict(signal_type)
    THEN RatLess(Rat(3, 10),
                 EvaluateSignalCombination(idx, row,
                     EntryWeightMaps[signal_type]).total_score)
    ELSE IF signal_type = "bb_compression" THEN Lt(row.bb_percentile, 300)
    ELSE IF signal_type = "rsi_oversold" THEN Lt(row.rsi, 30)
    ELSE IF signal_type = "rsi_overbought" THEN Gt(row.rsi, 70)
    ELSE FALSE

\* _check_entry_signal(row, signal_type, data_with_indicators, idx): with a
\* dict the score of the combination at idx is compared to 0.3 (the row is
\* then the row of the frame calculate_all_indicators made); with a name the
\* signal's rule is applied to the row.
CheckEntrySignal(row, signal_type, idx) ==
    IF IsDict(signal_type)
    THEN ~RatLess(EvaluateSignalCombination(idx, row,
                      EntryWeightMaps[signal_type]).total_score,
                  Rat(3, 10))
    ELSE IF signal_type = "bb_compression" THEN Lt(row.bb_percentile, 300)
    ELSE IF signal_type = "rsi_oversold" THEN Lt(row.rsi, 30)
    ELSE IF signal_type = "rsi_overbought" THEN Gt(row.rsi, 70)
    ELSE FALSE

\* What _check_exit_conditions decides, with the values it decided on (the
\* reason is what run_backtest writes to the log at line 244).
ExitDecision(exit, reason, pnl_pct, holding_days, days_to_expiry) ==
    [exit |-> exit, reason |-> reason, pnl_pct |-> pnl_pct,
     holding_days |-> holding_days, days_to_expiry |-> days_to_expiry]

\* the mutation of CheckExitConditions that forgets the expiry test
CheckExitNoExpiry(trade, current_date, current_price, quote, profit_target, stop_loss, max_holding_days) ==
    LET days_to_expiry == trade.expiry - current_date
        current_value == GetOptionPrice(quote, current_price, trade.strike,
                                        trade.strategy, days_to_expiry)
        pnl_pct == Rat(current_value - trade.entry_price, trade.entry_price)
        holding_days == current_date - trade.entry_date
    IN  IF RatGePct(pnl_pct, profit_target)
        THEN ExitDecision(TRUE, "Profit Target", pnl_pct, holding_days, days_to_expiry)
        ELSE IF holding_days >= max_holding_days
        THEN ExitDecision(TRUE, "Max Holding", pnl_pct, holding_days, days_to_expiry)
        ELSE ExitDecision(FALSE, "", pnl_pct, holding_days, days_to_expiry)

\* the mutation of CheckExitConditions that tests the holding time first
CheckExitHoldingFirst(trade, current_date, current_price, quote, profit_target, stop_loss, max_holding_days) ==
    LET days_to_expiry == trade.expiry - current_date
        current_value == GetOptionPrice(quote, current_price, trade.strike,
                                        trade.strategy, days_to_expiry)
        pnl_pct == Rat(current_value - trade.entry_price, trade.entry_price)
        holding_days == current_date - trade.entry_date
    IN  IF holding_days >= max_holding_days
        THEN ExitDecision(TRUE, "Max Holding", pnl_pct, holding_days, days_to_expiry)
        ELSE IF RatGePct(pnl_pct, profit_target)
        THEN ExitDecision(TRUE, "Profit Target", pnl_pct, holding_days, days_to_expiry)
        ELSE IF RatLePct(pnl_pct, stop_loss)
        THEN ExitDecision(TRUE, "Stop Loss", pnl_pct, holding_days, days_to_expiry)
        ELSE IF days_to_expiry <= 0
        THEN ExitDecision(TRUE, "Expiry", pnl_pct, holding_days, days_to_expiry)
        ELSE ExitDecision(FALSE, "", pnl_pct, holding_days, days_to_expiry)

\* _check_exit_conditions: both dates are parsed from their YYYY-MM-DD text
CheckExitConditions(trade, current_date, current_price, quote, profit_target, stop_loss, max_holding_days) ==
    LET days_to_expiry == trade.expiry - current_date
        current_value == GetOptionPrice(quote, current_price, trade.strike,
                                        trade.strategy, days_to_expiry)
        pnl_pct == Rat(current_value - trade.entry_price, trade.entry_price)
        holding_days == current_date - trade.entry_date
    IN  IF RatGePct(pnl_pct, profit_target)
        THEN ExitDecision(TRUE, "Profit Target", pnl_pct, holding_days, days_to_expiry)
        ELSE IF RatLePct(pnl_pct, stop_loss)
        THEN ExitDecision(TRUE, "Stop Loss", pnl_pct, holding_days, days_to_expiry)
        ELSE IF holding_days >= max_holding_days
        THEN ExitDecision(TRUE, "Max Holding", pnl_pct, holding_days, days_to_expiry)
        ELSE IF days_to_expiry <= 0
        THEN ExitDecision(TRUE, "Expiry", pnl_pct, holding_days, days_to_expiry)
        ELSE ExitDecision(FALSE, "", pnl_pct, holding_days, days_to_expiry)

\* the mutation of CloseTrade that forgets the contract multiplier in pnl
CloseTradeNoMultiplier(trade, exit_date, exit_price, exit_underlying, status) ==
    LET pnl == (exit_price - trade.entry_price) * trade.shares
    IN  [trade EXCEPT
            !.exit_date = exit_date,
            !.exit_price = exit_price,
            !.exit_underlying = exit_underlying,
            !.pnl = pnl,
            !.pnl_pct = Rat(pnl, trade.entry_price * trade.shares * ContractSize),
            !.status = status]

\* Lines 231-239 and 351-359: the trade with its exit fields filled in.
CloseTrade(trade, exit_date, exit_price, exit_underlying, status) ==
    LET pnl == (exit_price - trade.entry_price) * trade.shares * ContractSize
    IN  [trade EXCEPT
            !.exit_date = exit_date,
            !.exit_price = exit_price,
            !.exit_underlying = exit_underlying,
            !.pnl = pnl,
            !.pnl_pct = Rat(pnl, trade.entry_price * trade.shares * ContractSize),
            !.status = status]

\* Lines 320-322: the number of contracts of a new position.
\* position_value / (option_price * 100) with position_value =
\* current_capital * position_size, capital and premium in cents, size in percent.
ContractCount(capital, position_size, option_price) ==
    LET shares == IntTrunc(capital * position_size,
                           option_price * ContractSize * 100)
    IN  IF shares = 0 THEN 1 ELSE shares

\* StrategyDirectionSelector.select_direction below its 50-day minimum, and the
\* direction it derives from the indicator frame above it.
SelectDirection(idx, lean) == IF idx < 50 THEN "long_call" ELSE lean

-----------------------------------------------------------------------------
(* run_backtest                                                            *)

\* the mutation of MayEnter that forgets the no-position test
MayEnterAnyState(trade, idx) == idx >= MinBars

\* Line 248: the entry check runs in the no-position state from index 20 on.
MayEnter(trade, idx) == trade = NoTrade /\ idx >= MinBars

\* the mutation of IsShortHistory that tests for an empty answer only
IsShortHistoryEmptyOnly(n_bars) == n_bars = 0

\* Line 143: data is None or len(data) < 20
IsShortHistory(n_bars) == n_bars = 0 \/ n_bars < MinBars

\* the mutation of Equity that leaves the open position out
EquityRealizedOnly(trade, capital, current_price, current_date, hour) == capital

\* Lines 199-211: the day's equity point.
Equity(trade, capital, current_price, current_date, hour) ==
    IF trade # NoTrade
    THEN LET current_option_value ==
                 EstimateOptionValue(current_price, trade.strike, trade.strategy,
                     MarkDaysToExpiry(trade.expiry, current_date, hour))
             unrealized_pnl == (current_option_value - trade.entry_price)
                                   * trade.shares * ContractSize
         IN  capital + unrealized_pnl
    ELSE capital

\* Lines 141-174: the provider returned too little; the flat result.
ShortHistory ==
    /\ pc = "start"
    /\ IsShortHistory(data.n_bars)
    /\ pc' = "done"
    /\ result' = [status |-> "returned",
                  trades |-> <<>>,
                  initial_capital |-> cfg.initial_capital,
                  final_capital |-> cfg.initial_capital,
                  total_pnl |-> 0,
                  total_return |-> Rat(0, 1),
                  max_drawdown |-> Rat(0, 1),
                  sharpe_ratio |-> "zero",
                  num_trades |-> 0,
                  equity_curve |-> <<[date |-> 0, equity |-> cfg.initial_capital]>>]
    /\ UNCHANGED <<cfg, data, i, date, current_capital, open_trade, trades,
                   equity_curve, exit_log, n_entries, last_close, probe, peer>>

\* Lines 176-192: enough bars; the indicators are computed and the loop starts.
StartLoop ==
    /\ pc = "start"
    /\ ~IsShortHistory(data.n_bars)
    /\ pc' = "loop"
    /\ UNCHANGED <<cfg, data, i, date, current_capital, open_trade, trades,
                   equity_curve, exit_log, n_entries, result, last_close, probe, peer>>

GapsAt(idx) == IF idx <= MinBars THEN {1} ELSE Gaps

\* Lines 194-340: one iteration of the day loop on the bar (current_price, row)
\* dated gap days after the previous bar; quote_exit and quote_entry are the
\* provider's answers to the quote lookups of the exit check and of the entry.
Day(current_price, gap, row, quote_exit, quote_entry, lean) ==
    /\ pc = "loop"
    /\ i < data.n_bars
    /\ LET current_date == IF i = 0 THEN 0 ELSE date + gap
           equity == Equity(open_trade, current_capital, current_price,
                            current_date, data.hour)
           check == IF open_trade # NoTrade
                    THEN CheckExitConditions(open_trade, current_date,
                             current_price, quote_exit, cfg.profit_target,
                             cfg.stop_loss, cfg.max_holding_days)
                    ELSE ExitDecision(FALSE, "", Rat(0, 1), 0, 0)
           exit_price == EstimateOptionValue(current_price, open_trade.strike,
                             open_trade.strategy,
                             MarkDaysToExpiry(open_trade.expiry, current_date,
                                              data.hour))
           closed == CloseTrade(open_trade, current_date, exit_price,
                                current_price, "closed")
           capital_1 == IF check.exit THEN current_capital + closed.pnl
                        ELSE current_capital
           trades_1 == IF check.exit THEN Append(trades, closed) ELSE trades
           open_1 == IF check.exit THEN NoTrade ELSE open_trade
           should_enter == /\ MayEnter(open_1, i)
                           /\ CheckEntrySignal(row, cfg.entry_signal, i)
           current_strategy == IF cfg.strategy = "auto"
                               THEN SelectDirection(i, lean)
                               ELSE cfg.strategy
           strike == SelectStrike(current_price, current_strategy, row)
           option_price == GetOptionPrice(quote_entry, current_price, strike,
                               current_strategy, ExpiryDays)
           shares == ContractCount(capital_1, cfg.position_size, option_price)
           entered == NewTrade(current_date, current_strategy, strike,
                               option_price, shares, current_date + ExpiryDays,
                               current_price)
       IN  /\ equity_curve' = Append(equity_curve,
                                     [date |-> current_date, equity |-> equity])
           /\ exit_log' = IF check.exit THEN Append(exit_log, check)
                          ELSE exit_log
           /\ current_capital' = capital_1
           /\ trades' = trades_1
           /\ open_trade' = IF should_enter THEN entered ELSE open_1
           /\ n_entries' = IF should_enter THEN n_entries + 1 ELSE n_entries
           /\ date' = current_date
           /\ last_close' = current_price
           /\ i' = i + 1
    /\ UNCHANGED <<pc, cfg, data, result, probe>>

\* The answers the provider is asked for on bar idx: a quote for the exit
\* check when a position is open, a quote for the entry once entries are
\* allowed, a direction once select_direction has its 50 days.
QuotesIf(asked) == IF asked THEN Quotes ELSE {None}

LeansAt(idx) == IF idx < 50 THEN {"long_call"} ELSE {"long_call", "long_put"}

DayLoop ==
    \E current_price \in Prices, gap \in GapsAt(i), row \in RowsAt(i),
       quote_exit \in QuotesIf(open_trade # NoTrade),
       quote_entry \in QuotesIf(i >= MinBars),
       lean \in LeansAt(i) :
        /\ Day(current_price, gap, row, quote_exit, quote_entry, lean)
        /\ UNCHANGED peer

\* the mutation of SumPnl that leaves out the trade closed at the end of the run
RECURSIVE SumPnlClosedOnly(_)
SumPnlClosedOnly(ts) ==
    IF ts = <<>> THEN 0
    ELSE (IF ts[1].status = "closed" THEN ts[1].pnl ELSE 0)
             + SumPnlClosedOnly(Tail(ts))

\* Line 821: total_pnl = sum(t.pnl for t in trades if t.pnl is not None)
RECURSIVE SumPnl(_)
SumPnl(ts) == IF ts = <<>> THEN 0 ELSE ts[1].pnl + SumPnl(Tail(ts))

\* Lines 832-834 in one pass over the curve from index k on: peak is
\* rolling_max = equity.expanding().max() up to k - 1, worst is the least
\* drawdown = (equity - rolling_max) / rolling_max up to k - 1.  The quotient
\* is kept with a positive denominator; over a rolling_max of 0 it is NaN
\* (0 / 0), which min() skips, or -inf, written Rat(None, 1).
RECURSIVE MinDrawdown(_, _, _, _)
MinDrawdown(curve, k, peak, worst) ==
    IF k > Len(curve) THEN worst
    ELSE LET rolling_max == Max(peak, curve[k].equity)
             drawdown == IF rolling_max > 0
                         THEN Rat(curve[k].equity - rolling_max, rolling_max)
                         ELSE IF rolling_max < 0
                         THEN Rat(rolling_max - curve[k].equity, -rolling_max)
                         ELSE IF curve[k].equity = 0 THEN worst
                         ELSE Rat(None, 1)
         IN  IF RatLess(drawdown, worst)
             THEN MinDrawdown(curve, k + 1, rolling_max, drawdown)
             ELSE MinDrawdown(curve, k + 1, rolling_max, worst)

\* the mutation of MaxDrawdown that reports the depth of the worst drawdown
MaxDrawdownDepth(curve) ==
    LET worst == MinDrawdown(curve, 2, curve[1].equity, Rat(0, 1))
    IN  Rat(-worst.n, worst.d)

\* max_drawdown = drawdown.min()
MaxDrawdown(curve) ==
    MinDrawdown(curve, 2, curve[1].equity, Rat(0, 1))

\* Lines 837-838: the Sharpe ratio, as the kind of float it is.  The daily
\* returns are equity.pct_change().dropna(); their standard deviation is 0
\* when they are all equal and NaN when there is one of them, and the ratio
\* mean / std is then NaN (0 / 0, x / NaN) or infinite (x / 0).
SharpeRatio(curve) ==
    LET n == Len(curve)
        r(k) == Rat(curve[k].equity - curve[k - 1].equity, curve[k - 1].equity)
    IN  IF n < 2 THEN "zero"
        ELSE IF \E k \in 2 .. n : curve[k - 1].equity = 0 THEN "nan"
        ELSE IF n = 2 THEN "nan"
        ELSE IF \A k \in 2 .. n : RatEq(r(k), r(2))
        THEN IF r(2).n = 0 THEN "nan" ELSE "inf"
        ELSE "finite"

\* _calculate_results
CalculateResults(ts, curve, initial_capital, capital) ==
    IF ts = <<>>
    THEN [status |-> "returned",
          trades |-> <<>>,
          initial_capital |-> initial_capital,
          final_capital |-> capital,
          total_pnl |-> 0,
          total_return |-> Rat(0, 1),
          max_drawdown |-> Rat(0, 1),
          sharpe_ratio |-> "zero",
          num_trades |-> 0,
          equity_curve |-> curve]
    ELSE [status |-> "returned",
          trades |-> ts,
          initial_capital |-> initial_capital,
          final_capital |-> capital,
          total_pnl |-> SumPnl(ts),
          total_return |-> Rat(SumPnl(ts), initial_capital),
          max_drawdown |-> MaxDrawdown(curve),
          sharpe_ratio |-> SharpeRatio(curve),
          num_trades |-> Len(ts),
          equity_curve |-> curve]

\* the mutation of NeedsClosing that leaves the last position open
NeedsClosingNever(trade) == FALSE

\* Line 343: if open_trade
NeedsClosing(trade) == trade # NoTrade

\* Lines 342-367: after the last bar a position still open is closed at the
\* last close, priced by _get_option_price with 0 days to expiry; the result
\* is computed and returned.
\* the mutation of FinishRun that closes the position without booking its pnl
FinishRunUnbooked(quote) ==
    /\ pc = "loop"
    /\ i = data.n_bars
    /\ pc' = "done"
    /\ LET exit_price == GetOptionPrice(quote, last_close, open_trade.strike,
                                        open_trade.strategy, 0)
           closed == CloseTrade(open_trade, date, exit_price, last_close,
                                "expired")
           trades_2 == IF NeedsClosing(open_trade) THEN Append(trades, closed)
                       ELSE trades
       IN  /\ open_trade' = IF NeedsClosing(open_trade) THEN closed ELSE open_trade
           /\ current_capital' = current_capital
           /\ trades' = trades_2
           /\ result' = CalculateResults(trades_2, equity_curve,
                                         cfg.initial_capital, current_capital)
    /\ UNCHANGED <<cfg, data, i, date, equity_curve, exit_log, n_entries,
                   last_close, probe>>

FinishRun(quote) ==
    /\ pc = "loop"
    /\ i = data.n_bars
    /\ pc' = "done"
    /\ LET exit_price == GetOptionPrice(quote, last_close, open_trade.strike,
                                        open_trade.strategy, 0)
           closed == CloseTrade(open_trade, date, exit_price, last_close,
                                "expired")
           open_2 == IF NeedsClosing(open_trade) THEN closed ELSE open_trade
           capital_2 == IF NeedsClosing(open_trade)
                        THEN current_capital + closed.pnl
                        ELSE current_capital
           trades_2 == IF NeedsClosing(open_trade) THEN Append(trades, closed)
                       ELSE trades
       IN  /\ open_trade' = open_2
           /\ current_capital' = capital_2
           /\ trades' = trades_2
           /\ result' = CalculateResults(trades_2, equity_curve,
                                         cfg.initial_capital, capital_2)
    /\ UNCHANGED <<cfg, data, i, date, equity_curve, exit_log, n_entries,
                   last_close, probe>>

EndOfData ==
    /\ \E quote \in QuotesIf(open_trade # NoTrade) : FinishRun(quote)
    /\ UNCHANGED peer

Next == ShortHistory \/ StartLoop \/ DayLoop \/ EndOfData

Spec == Init /\ [][Next]_vars

-----------------------------------------------------------------------------
(* The valuation model on its own: one call of _estimate_option_value       *)

ProbeSpots == {5000, 10000, 13000}
ProbeStrikes == {4000, 9000, 10000, 11000, 15000}
ProbeDays == -1 .. ExpiryDays

IdleRun ==
    /\ cfg = [initial_capital |-> 10000, strategy |-> "auto",
              entry_signal |-> "rsi_oversold", profit_target |-> 50,
              stop_loss |-> -80, max_holding_days |-> 30,
              position_size |-> 10]
    /\ data = [n_bars |-> 0, hour |-> 0]
    /\ i = 0
    /\ date = 0
    /\ current_capital = cfg.initial_capital
    /\ open_trade = NoTrade
    /\ trades = <<>>
    /\ equity_curve = <<>>
    /\ exit_log = <<>>
    /\ n_entries = 0
    /\ result = NoResult
    /\ last_close = None
    /\ peer = NoPeer

InitEstimate ==
    /\ pc = "probe"
    /\ IdleRun
    /\ probe \in [op : {"estimate"},
                  underlying_price : ProbeSpots,
                  strike : ProbeStrikes,
                  option_type : {"long_call", "long_put"},
                  days_to_expiry : ProbeDays,
                  ret : {None}]

ApplyEstimate ==
    /\ pc = "probe"
    /\ probe.op = "estimate"
    /\ probe.ret = None
    /\ probe' = [probe EXCEPT !.ret =
                    EstimateOptionValue(probe.underlying_price, probe.strike,
                                        probe.option_type, probe.days_to_expiry)]
    /\ UNCHANGED <<pc, cfg, data, i, date, current_capital, open_trade, trades,
                   equity_curve, exit_log, n_entries, result, last_close, peer>>

SpecEstimate == InitEstimate /\ [][ApplyEstimate]_vars

-----------------------------------------------------------------------------
(* The strike selector on its own: one call of select_otm_strategy         *)

\* The ladder of profiles, in the order STRATEGIES lists them.
Ladder == <<"ultra_conservative", "conservative", "balanced", "moderate", "aggressive", "speculative">>

Rung(name) == CHOOSE k \in 1 .. Len(Ladder) : Ladder[k] = name

\* Arguments of select_otm_strategy: volatility, momentum and bb_percentile in
\* thousandths (NaN: an indicator inside its warm-up window).
SelectVolatilities == {200, 400, 600, 800, NaN}
SelectMomenta == {-900, -750, -600, 0, 600, 750, 900, NaN}
SelectBbPercentiles == {100, 500, 900, NaN}
SelectDays == {7, 14, 15, 30}
RiskAppetites == {"ultra_conservative", "conservative", "balanced", "aggressive"}

InitSelect ==
    /\ pc = "probe"
    /\ IdleRun
    /\ probe \in [op : {"select"},
                  volatility : SelectVolatilities,
                  momentum : SelectMomenta,
                  bb_percentile : SelectBbPercentiles,
                  days_to_expiry : SelectDays,
                  risk_appetite : RiskAppetites,
                  steps : {<<>>},
                  ret : {""}]

\* The call: base_strategy after each of the five steps, and the profile
\* returned.
ApplySelect ==
    /\ pc = "probe"
    /\ probe.op = "select"
    /\ probe.ret = ""
    /\ LET s1 == VolatilityBase(probe.volatility)
           s2 == MomentumAdjust(s1, probe.momentum)
           s3 == BandAdjust(s2, probe.bb_percentile)
           s4 == ExpiryAdjust(s3, probe.days_to_expiry)
           s5 == RiskAdjust(s4, probe.risk_appetite)
       IN  probe' = [probe EXCEPT
                        !.steps = <<s1, s2, s3, s4, s5>>,
                        !.ret = SelectOtmStrategy(probe.volatility,
                                    probe.momentum, probe.bb_percentile,
                                    probe.days_to_expiry, probe.risk_appetite)]
    /\ UNCHANGED <<pc, cfg, data, i, date, current_capital, open_trade, trades,
                   equity_curve, exit_log, n_entries, result, last_close, peer>>

SpecSelect == InitSelect /\ [][ApplySelect]_vars

-----------------------------------------------------------------------------
(* The direction selector on its own: one call of select_direction         *)

\* A weight map is a set of <<signal name, weight>> pairs, one per name, the
\* weights in thousandths; {} is None or the empty dict.
RECURSIVE WeightOf(_, _)
WeightOf(signal_weights, names) ==
    IF signal_weights = {} THEN 0
    ELSE LET item == CHOOSE x \in signal_weights : TRUE
         IN  (IF item[1] \in names THEN item[2] ELSE 0)
                 + WeightOf(signal_weights \ {item}, names)

\* _analyze_signal_direction: the shares of the bullish and of the bearish
\* names in the weight map
AnalyzeSignalDirection(signal_weights) ==
    LET bullish_indicators == WeightOf(signal_weights, {"rsi_oversold", "ma_crossover", "macd_crossover", "williams_oversold", "bb_breakout"})
        bearish_indicators == WeightOf(signal_weights, {"rsi_overbought", "ma_crossunder", "williams_overbought"})
        total == bullish_indicators + bearish_indicators
    IN  IF total > 0
        THEN [bullish |-> Rat(bullish_indicators, total),
              bearish |-> Rat(bearish_indicators, total)]
        ELSE [bullish |-> Rat(1, 2), bearish |-> Rat(1, 2)]

\* Lines 47-139: the bullish and the bearish score, in hundredths, before the
\* weight map is counted.  f is the frame at idx: row and prev_row values
\* (prices in cents, macd in cents, rsi and williams_r in points) and the
\* 5-day price change in thousandths.
DirectionBullish(f) ==
    (IF f.rsi < 30 THEN 20 ELSE IF f.rsi > 70 THEN 0 ELSE IF f.rsi < 40 THEN 10 ELSE 0)
    + (IF f.macd > f.macd_signal THEN 15 + (IF f.prev_macd <= f.prev_macd_signal THEN 10 ELSE 0) ELSE 0)
    + (IF f.close > f.ma20 /\ f.close > f.ma50 THEN 15 + (IF f.ma20 > f.ma50 THEN 10 ELSE 0) ELSE 0)
    + (IF f.ma5 > f.ma20 /\ f.prev_ma5 <= f.prev_ma20 THEN 15 ELSE 0)
    + (IF f.price_change > 30 THEN 10 ELSE 0)
    + (IF f.close < f.bb_lower THEN 10
       ELSE IF f.close > f.bb_upper THEN 0
       ELSE IF 2 * f.close < f.bb_upper + f.bb_lower THEN 0
       ELSE 5)
    + (IF f.williams_r < -80 THEN 10 ELSE 0)

DirectionBearish(f) ==
    (IF f.rsi < 30 THEN 0 ELSE IF f.rsi > 70 THEN 20 ELSE IF f.rsi < 40 THEN 0 ELSE IF f.rsi > 60 THEN 10 ELSE 0)
    + (IF f.macd > f.macd_signal THEN 0
       ELSE IF f.macd < f.macd_signal THEN 15 + (IF f.prev_macd >= f.prev_macd_signal THEN 10 ELSE 0)
       ELSE 0)
    + (IF f.close > f.ma20 /\ f.close > f.ma50 THEN 0
       ELSE IF f.close < f.ma20 /\ f.close < f.ma50 THEN 15 + (IF f.ma20 < f.ma50 THEN 10 ELSE 0)
       ELSE 0)
    + (IF f.ma5 > f.ma20 /\ f.prev_ma5 <= f.prev_ma20 THEN 0
       ELSE IF f.ma5 < f.ma20 /\ f.prev_ma5 >= f.prev_ma20 THEN 15
       ELSE 0)
    + (IF f.price_change > 30 THEN 0 ELSE IF f.price_change < -30 THEN 10 ELSE 0)
    + (IF f.close < f.bb_lower THEN 0
       ELSE IF f.close > f.bb_upper THEN 10
       ELSE IF 2 * f.close < f.bb_upper + f.bb_lower THEN 5
       ELSE 0)
    + (IF f.williams_r < -80 THEN 0 ELSE IF f.williams_r > -20 THEN 10 ELSE 0)

\* select_direction(data, idx, signal_weights) on the frame f
SelectDirectionOn(idx, f, signal_weights) ==
    IF idx < 50 THEN [direction |-> "long_call", confidence |-> Rat(1, 2)]
    ELSE LET directional_signals == AnalyzeSignalDirection(signal_weights)
             bullish_score ==
                 IF signal_weights # {}
                 THEN RatAdd(Rat(DirectionBullish(f), 100), RatMul(directional_signals.bullish, Rat(15, 100)))
                 ELSE Rat(DirectionBullish(f), 100)
             bearish_score ==
                 IF signal_weights # {}
                 THEN RatAdd(Rat(DirectionBearish(f), 100), RatMul(directional_signals.bearish, Rat(15, 100)))
                 ELSE Rat(DirectionBearish(f), 100)
             total_score == RatAdd(bullish_score, bearish_score)
             bullish_confidence == RatMul(bullish_score, Rat(total_score.d, total_score.n))
             bearish_confidence == RatMul(bearish_score, Rat(total_score.d, total_score.n))
         IN  IF total_score.n = 0
             THEN [direction |-> "long_call", confidence |-> Rat(1, 2)]
             ELSE IF RatLess(bearish_confidence, bullish_confidence)
             THEN [direction |-> "long_call", confidence |-> bullish_confidence]
             ELSE [direction |-> "long_put", confidence |-> bearish_confidence]

\* Frames: the close is 100.00 and the previous 5-day average is 100.00.
DirectionFrames ==
    [rsi : {25, 50, 75},
     macd : {-5, 0, 5}, macd_signal : {0},
     prev_macd : {0, 5}, prev_macd_signal : {0},
     close : {10000},
     ma20 : {9800, 10000, 10200}, ma50 : {9700, 10000},
     ma5 : {9900, 10000, 10100},
     prev_ma5 : {10000}, prev_ma20 : {10000},
     price_change : {-50, 0, 50},
     bb_upper : {9900, 10200, 10500}, bb_lower : {9800},
     williams_r : {-90, -50, -10}]

DirectionWeights ==
    {{},
     {<<"rsi_oversold", 500>>, <<"rsi_overbought", 250>>, <<"volume_surge", 250>>}}

DirectionIndexes == {49, 60}

InitDirection ==
    /\ pc = "probe"
    /\ IdleRun
    /\ probe \in [op : {"direction"},
                  idx : DirectionIndexes,
                  frame : DirectionFrames,
                  signal_weights : DirectionWeights,
                  ret : {[direction |-> "", confidence |-> Rat(0, 1)]}]

ApplyDirection ==
    /\ pc = "probe"
    /\ probe.op = "direction"
    /\ probe.ret.direction = ""
    /\ probe' = [probe EXCEPT !.ret =
                    SelectDirectionOn(probe.idx, probe.frame, probe.signal_weights)]
    /\ UNCHANGED <<pc, cfg, data, i, date, current_capital, open_trade, trades,
                   equity_curve, exit_log, n_entries, result, last_close, peer>>

SpecDirection == InitDirection /\ [][ApplyDirection]_vars

-----------------------------------------------------------------------------
(* The signal library on its own: one call of detect_signal or of          *)
(* evaluate_signal_combination                                             *)

\* Frames.  The moving averages are those of calculate_all_indicators on a
\* series flat at 100.00 whose last close is latest; the other columns
\* range over values calculate_all_indicators produces.
LastCloses == {8000, 10000, 12000, 120000}

QuietColumns ==
    [bb_width_pct |-> 500, volume_ratio |-> 1000, atr_pct |-> 500, bb_std |-> 3000,
     cci |-> 0, price_min_idx |-> 10, macd_min_idx |-> 10, recent_first |-> 10500]

OtherColumns ==
    {QuietColumns,
     [QuietColumns EXCEPT !.bb_width_pct = 200],
     [QuietColumns EXCEPT !.bb_width_pct = NaN],
     [QuietColumns EXCEPT !.volume_ratio = 2000],
     [QuietColumns EXCEPT !.volume_ratio = 6000],
     [QuietColumns EXCEPT !.atr_pct = 100],
     [QuietColumns EXCEPT !.bb_std = 100],
     [QuietColumns EXCEPT !.cci = -300],
     [QuietColumns EXCEPT !.cci = 150],
     [QuietColumns EXCEPT !.price_min_idx = 5],
     [QuietColumns EXCEPT !.volume_ratio = NaN],
     [QuietColumns EXCEPT !.atr_pct = NaN],
     [QuietColumns EXCEPT !.cci = NaN]}

SignalFrame(latest, rsi, williams_r, momenta, macds, other) ==
    [close |-> latest,
     ma5 |-> (4 * 10000 + latest) \div 5,
     ma20 |-> (19 * 10000 + latest) \div 20,
     ma50 |-> (49 * 10000 + latest) \div 50,
     prev_ma5 |-> 10000, prev_ma20 |-> 10000,
     rsi |-> rsi, williams_r |-> williams_r,
     momentum |-> momenta[1], prev_momentum |-> momenta[2],
     macd |-> macds[1], macd_signal |-> 0, macd_hist |-> macds[1] - 0,
     prev_macd |-> macds[2], prev_macd_signal |-> 0,
     bb_middle |-> (19 * 10000 + latest) \div 20,
     bb_upper |-> (19 * 10000 + latest) \div 20 + 2 * other.bb_std,
     bb_lower |-> (19 * 10000 + latest) \div 20 - 2 * other.bb_std,
     bb_width_pct |-> other.bb_width_pct, volume_ratio |-> other.volume_ratio,
     atr_pct |-> other.atr_pct, cci |-> other.cci,
     price_min_idx |-> other.price_min_idx, macd_min_idx |-> other.macd_min_idx,
     recent_first |-> other.recent_first]

SignalFrames ==
    {SignalFrame(latest, rsi, williams_r, momenta, macds, other) :
        latest \in LastCloses, rsi \in {20, 50, 80, NaN},
        williams_r \in {-90, -50, -10, NaN},
        momenta \in {<<500, -20>>, <<50, 20>>, <<NaN, 20>>},
        macds \in {<<30, -10>>, <<30, 10>>},
        other \in OtherColumns}

SignalIndexes == {49, 55, 60}

SignalWeightMaps ==
    {{},
     SignalDefinitions,
     {<<"rsi_overbought", 90>>, <<"williams_oversold", 60>>},
     {<<"momentum_reversal", 70>>, <<"williams_overbought", 60>>, <<"volume_surge", 500>>}}

NoSignal == [triggered |-> FALSE, strength |-> Rat(-1, 1)]

InitSignals ==
    /\ pc = "probe"
    /\ IdleRun
    /\ \/ probe \in [op : {"detect"}, signal_name : SignalNames \cup {"unknown_signal"},
                     idx : SignalIndexes, frame : SignalFrames,
                     called : {FALSE}, ret : {NoSignal}]
       \/ probe \in [op : {"evaluate"}, signal_weights : SignalWeightMaps,
                     idx : {49, 60}, frame : SignalFrames,
                     called : {FALSE},
                     ret : {[total_score |-> RatZero, direction |-> "", signal_details |-> {}]}]
       \/ probe \in [op : {"entry"}, signal_type : DOMAIN EntryWeightMaps,
                     idx : SignalIndexes, frame : SignalFrames,
                     called : {FALSE}, ret : {FALSE}]

ApplyDetect ==
    /\ pc = "probe"
    /\ probe.op = "detect"
    /\ ~probe.called
    /\ probe' = [probe EXCEPT !.called = TRUE,
                              !.ret = DetectSignal(probe.signal_name, probe.idx, probe.frame)]
    /\ UNCHANGED <<pc, cfg, data, i, date, current_capital, open_trade, trades,
                   equity_curve, exit_log, n_entries, result, last_close, peer>>

ApplyEvaluate ==
    /\ pc = "probe"
    /\ probe.op = "evaluate"
    /\ ~probe.called
    /\ probe' = [probe EXCEPT !.called = TRUE,
                              !.ret = EvaluateSignalCombination(probe.idx, probe.frame,
                                                                probe.signal_weights)]
    /\ UNCHANGED <<pc, cfg, data, i, date, current_capital, open_trade, trades,
                   equity_curve, exit_log, n_entries, result, last_close, peer>>

\* _check_entry_signal(row, signal_type, data_with_indicators, idx) with a
\* weight map, on the row of the frame
ApplyCheckEntry ==
    /\ pc = "probe"
    /\ probe.op = "entry"
    /\ ~probe.called
    /\ probe' = [probe EXCEPT !.called = TRUE,
                              !.ret = CheckEntrySignal(probe.frame, probe.signal_type,
                                                       probe.idx)]
    /\ UNCHANGED <<pc, cfg, data, i, date, current_capital, open_trade, trades,
                   equity_curve, exit_log, n_entries, result, last_close, peer>>

SpecSignals == InitSignals /\ [][ApplyDetect \/ ApplyEvaluate \/ ApplyCheckEntry]_vars

-----------------------------------------------------------------------------
(* Two run_backtest calls, one after the other, on the same object          *)

\* A series is a sequence of bars [close, gap]: bar k of the frame is
\* series[k + 1], dated gap days after bar k - 1.

\* delta.where(delta > 0, 0) and -delta.where(delta < 0, 0) at bar k; the
\* delta of bar 0 is NaN, which where() turns into 0
Gain(series, k) == IF k = 0 THEN 0 ELSE Max(series[k + 1].close - series[k].close, 0)

Loss(series, k) == IF k = 0 THEN 0 ELSE Max(series[k].close - series[k + 1].close, 0)

\* rolling(window).sum() of a column (a sequence, bar k at k + 1) at bar idx:
\* the bars idx - window + 1 .. idx
RECURSIVE RollingSum(_, _, _)
RollingSum(column, idx, window) ==
    IF window = 0 THEN 0
    ELSE column[idx + 1] + RollingSum(column, idx - 1, window - 1)

\* Lines 469-474: RSI in points; the means of gain and loss cancel to sums
RsiAt(series, idx) ==
    IF idx < RsiWindow - 1 THEN NaN
    ELSE LET gain == RollingSum([k \in 1 .. Len(series) |-> Gain(series, k - 1)],
                                idx, RsiWindow)
             loss == RollingSum([k \in 1 .. Len(series) |-> Loss(series, k - 1)],
                                idx, RsiWindow)
         IN  IF loss = 0 THEN (IF gain = 0 THEN NaN ELSE 100)
             ELSE (100 * gain) \div (gain + loss)

\* the integer square root of x, by bisection of lo .. hi
RECURSIVE IsqrtIn(_, _, _)
IsqrtIn(x, lo, hi) ==
    IF lo >= hi THEN lo
    ELSE LET mid == (lo + hi + 1) \div 2
         IN  IF mid * mid <= x THEN IsqrtIn(x, mid, hi) ELSE IsqrtIn(x, lo, mid - 1)

\* Lines 457-462: bb_width = (upper_bb - lower_bb) / sma = 4 * std / sma in
\* basis points, with std the sample standard deviation of the last 20 closes
\* (taken about the oldest close of the window so that the squares stay small)
BbWidthAt(series, idx) ==
    IF idx < BbWindow - 1 THEN NaN
    ELSE LET oldest == series[idx - BbWindow + 2].close
             dev == [k \in 1 .. Len(series) |-> series[k].close - oldest]
             sum == RollingSum(dev, idx, BbWindow)
             squares == RollingSum([k \in 1 .. Len(series) |-> dev[k] * dev[k]],
                                   idx, BbWindow)
             std_tenths == IsqrtIn(((BbWindow * squares - sum * sum) * 100)
                                       \div (BbWindow * (BbWindow - 1)), 0, 40000)
         IN  (4 * BbWindow * 1000 * std_tenths) \div (BbWindow * oldest + sum)

\* Lines 465-467: the share of the last 60 widths below the current one, in
\* thousandths
BbPercentileAt(series, idx) ==
    IF idx < BbWindow + BbPercentileWindow - 2 THEN NaN
    ELSE (1000 * Cardinality({k \in (idx - BbPercentileWindow + 1) .. idx :
                 BbWidthAt(series, k) < BbWidthAt(series, idx)}))
             \div BbPercentileWindow

\* the mutation of IndicatorRow that reads each indicator one bar ahead
IndicatorRowAhead(series, idx) ==
    LET ahead == IF idx + 1 < Len(series) THEN idx + 1 ELSE idx
    IN  [rsi |-> RsiAt(series, ahead),
         bb_width |-> BbWidthAt(series, ahead),
         bb_percentile |-> BbPercentileAt(series, ahead)]

\* _calculate_indicators: the row of bar idx of the frame computed from series
IndicatorRow(series, idx) ==
    [rsi |-> RsiAt(series, idx),
     bb_width |-> BbWidthAt(series, idx),
     bb_percentile |-> BbPercentileAt(series, idx)]

\* Series: flat at a base price for the first 20 bars, then one or two bars.
FlatBars(base) == [k \in 1 .. MinBars |-> [close |-> base, gap |-> 1]]

SeriesTails ==
    {<<b>> : b \in [close : Prices, gap : {1}]}
        \cup {<<b, c>> : b \in [close : Prices, gap : {1}], c \in [close : Prices, gap : Gaps]}

\* The provider's answers to the option-quote requests of a run, by purpose
QuoteTables == [{"entry", "exit", "final"} -> Quotes]

\* the mutation of CapitalAtStart that keeps what the last run left
CapitalCarried(capital, initial_capital) == capital

\* Line 133: self.current_capital = self.initial_capital
CapitalAtStart(capital, initial_capital) == initial_capital

\* What a day leaves behind: the position, the trades, the equity points
Snapshot(trade, ts, curve, log, entries, capital) ==
    [open_trade |-> trade, trades |-> ts, equity_curve |-> curve,
     exit_log |-> log, n_entries |-> entries, current_capital |-> capital]

InitTwoRuns ==
    /\ pc = "start"
    /\ cfg \in [initial_capital : InitialCapitals,
                strategy : Strategies,
                entry_signal : {"rsi_oversold"},
                profit_target : ProfitTargets,
                stop_loss : StopLosses,
                max_holding_days : {30},
                position_size : PositionSizes]
    /\ \E base \in Prices, tail_1 \in SeriesTails, tail_2 \in SeriesTails,
          quotes \in QuoteTables :
          /\ peer = [role |-> "replay", run |-> 1,
                     series |-> <<FlatBars(base) \o tail_1, FlatBars(base) \o tail_2>>,
                     quotes |-> quotes, days |-> <<>>, first |-> NoResult]
          /\ data = [n_bars |-> MinBars + Len(tail_1), hour |-> 0]
    /\ i = 0
    /\ date = 0
    /\ current_capital = cfg.initial_capital
    /\ open_trade = NoTrade
    /\ trades = <<>>
    /\ equity_curve = <<>>
    /\ exit_log = <<>>
    /\ n_entries = 0
    /\ result = NoResult
    /\ last_close = None
    /\ probe = NoProbe

\* One iteration of the day loop on bar i of the run's series
SeriesDay ==
    /\ peer.role = "replay"
    /\ i < data.n_bars
    /\ LET series == peer.series[peer.run]
       IN  Day(series[i + 1].close, series[i + 1].gap, IndicatorRow(series, i),
               peer.quotes["exit"], peer.quotes["entry"], "long_call")
    /\ peer' = IF peer.run = 1
               THEN [peer EXCEPT !.days = Append(@,
                        Snapshot(open_trade', trades', equity_curve', exit_log',
                                 n_entries', current_capital'))]
               ELSE peer

SeriesEnd ==
    /\ peer.role = "replay"
    /\ FinishRun(peer.quotes["final"])
    /\ UNCHANGED peer

\* Lines 131-133 and 188-192 of the second call: the first call has returned
SecondRun ==
    /\ peer.role = "replay"
    /\ peer.run = 1
    /\ pc = "done"
    /\ pc' = "start"
    /\ peer' = [peer EXCEPT !.run = 2, !.first = result]
    /\ data' = [data EXCEPT !.n_bars = Len(peer.series[2])]
    /\ current_capital' = CapitalAtStart(current_capital, cfg.initial_capital)
    /\ i' = 0
    /\ date' = 0
    /\ open_trade' = NoTrade
    /\ trades' = <<>>
    /\ equity_curve' = <<>>
    /\ exit_log' = <<>>
    /\ n_entries' = 0
    /\ result' = NoResult
    /\ last_close' = None
    /\ UNCHANGED <<cfg, probe>>

NextTwoRuns == StartLoop \/ SeriesDay \/ SeriesEnd \/ SecondRun

SpecTwoRuns == InitTwoRuns /\ [][NextTwoRuns]_vars

-----------------------------------------------------------------------------
(* Two run_backtest calls interleaved on the same object                    *)

\* The locals of a call that is not running: everything of a run but
\* self.current_capital, which is a field of the object both calls share.
Frame(f_pc, f_cfg, f_data, f_i, f_date, f_open, f_trades, f_curve, f_log, f_entries, f_result, f_close) ==
    [role |-> "frame", pc |-> f_pc, cfg |-> f_cfg, data |-> f_data, i |-> f_i,
     date |-> f_date, open_trade |-> f_open, trades |-> f_trades,
     equity_curve |-> f_curve, exit_log |-> f_log, n_entries |-> f_entries,
     result |-> f_result, last_close |-> f_close]

InitShared ==
    /\ pc = "call"
    /\ cfg \in [initial_capital : InitialCapitals,
                strategy : Strategies,
                entry_signal : {"rsi_oversold"},
                profit_target : ProfitTargets,
                stop_loss : StopLosses,
                max_holding_days : {30},
                position_size : PositionSizes]
    /\ data = [n_bars |-> MinBars + 1, hour |-> 0]
    /\ i = 0
    /\ date = 0
    /\ current_capital = cfg.initial_capital
    /\ open_trade = NoTrade
    /\ trades = <<>>
    /\ equity_curve = <<>>
    /\ exit_log = <<>>
    /\ n_entries = 0
    /\ result = NoResult
    /\ last_close = None
    /\ probe = NoProbe
    /\ peer = Frame("call", cfg, data, 0, 0, NoTrade, <<>>, <<>>, <<>>, 0, NoResult, None)

\* Lines 131-133: the call starts by resetting the object's capital
CallRunBacktest ==
    /\ pc = "call"
    /\ pc' = "start"
    /\ current_capital' = CapitalAtStart(current_capital, cfg.initial_capital)
    /\ UNCHANGED <<cfg, data, i, date, open_trade, trades, equity_curve, exit_log,
                   n_entries, result, last_close, probe, peer>>

\* The interpreter switches threads: the running call is suspended and the
\* other one resumes; self.current_capital stays where it is.
SwitchThread ==
    /\ peer.role = "frame"
    /\ peer.pc # "done"
    /\ peer' = Frame(pc, cfg, data, i, date, open_trade, trades, equity_curve,
                     exit_log, n_entries, result, last_close)
    /\ pc' = peer.pc
    /\ cfg' = peer.cfg
    /\ data' = peer.data
    /\ i' = peer.i
    /\ date' = peer.date
    /\ open_trade' = peer.open_trade
    /\ trades' = peer.trades
    /\ equity_curve' = peer.equity_curve
    /\ exit_log' = peer.exit_log
    /\ n_entries' = peer.n_entries
    /\ result' = peer.result
    /\ last_close' = peer.last_close
    /\ UNCHANGED <<current_capital, probe>>

NextShared == CallRunBacktest \/ StartLoop \/ DayLoop \/ EndOfData \/ SwitchThread

SpecShared == InitShared /\ [][NextShared]_vars

-----------------------------------------------------------------------------
(* The option price on its own: one call of _get_option_price               *)

\* Line 89: self.use_real_prices as __init__ sets it from its argument
UseRealPrices(use_real_prices) == TRUE

\* if x: of a price field of the provider's answer
Truthy(x) == x # None /\ x # 0

\* What the provider does with the request of _fetch_real_option_price.
\* "unbuildable": an exception before the request is sent (lines 646-664 are
\* outside the try); "timeout", "connection_error": requests.get raises;
\* "bad_json": response.json() raises; "forbidden": status 403;
\* "server_error": any other status; "no_results": status 200 without
\* results; "results": status 200 with the first bar's c, h and l (cents).
ResponseKinds ==
    {"unbuildable", "timeout", "connection_error", "bad_json", "forbidden",
     "server_error", "no_results"}

Responses ==
    [kind : ResponseKinds, c : {None}, h : {None}, l : {None}]
        \cup [kind : {"results"}, c : {None, 0, -100, 2000},
              h : {None, 0, 2100}, l : {None, 1900}]

\* _fetch_real_option_price: cached is the cache's entry under the request's
\* key (None: no entry).  raised: the exception leaves the function; ret: the
\* value returned; stored: the cache's entry under the key afterwards.
FetchRealOptionPrice(cached, response) ==
    IF cached # None
    THEN [raised |-> FALSE, ret |-> cached, stored |-> cached]
    ELSE IF response.kind = "unbuildable"
    THEN [raised |-> TRUE, ret |-> None, stored |-> None]
    ELSE IF response.kind = "results"
    THEN LET mid_price == IF Truthy(response.c) THEN response.c
                          ELSE IF Truthy(response.h) /\ Truthy(response.l)
                          THEN (response.h + response.l) \div 2
                          ELSE None
         IN  [raised |-> FALSE, ret |-> mid_price, stored |-> mid_price]
    ELSE [raised |-> FALSE, ret |-> None, stored |-> None]

\* _get_option_price on an object constructed with the argument
\* use_real_prices: the price returned, whether the lookup was called, what
\* the lookup did.  An exception of the lookup is caught at line 618 and the
\* estimate follows, as for a lookup that returned None.
GetOptionPriceCall(use_real_prices, cached, response, underlying_price, strike, option_type, days_to_expiry) ==
    IF ~UseRealPrices(use_real_prices)
    THEN [ret |-> EstimateOptionValue(underlying_price, strike, option_type,
                                      days_to_expiry),
          fetched |-> FALSE,
          lookup |-> [raised |-> FALSE, ret |-> None, stored |-> cached]]
    ELSE LET lookup == FetchRealOptionPrice(cached, response)
         IN  [ret |-> GetOptionPrice(IF lookup.raised THEN None ELSE lookup.ret,
                                     underlying_price, strike, option_type,
                                     days_to_expiry),
              fetched |-> TRUE,
              lookup |-> lookup]

PriceSpots == {10000}
PriceStrikes == {9000, 10500}
PriceDays == {0, 30}
CacheEntries == {None, 2500}

NoPrice == [ret |-> None, fetched |-> FALSE,
            lookup |-> [raised |-> FALSE, ret |-> None, stored |-> None]]

InitPrice ==
    /\ pc = "probe"
    /\ IdleRun
    /\ probe \in [op : {"price"},
                  use_real_prices : BOOLEAN,
                  cached : CacheEntries,
                  response : Responses,
                  underlying_price : PriceSpots,
                  strike : PriceStrikes,
                  option_type : {"long_call", "long_put"},
                  days_to_expiry : PriceDays,
                  called : {FALSE},
                  out : {NoPrice}]

ApplyGetOptionPrice ==
    /\ pc = "probe"
    /\ probe.op = "price"
    /\ ~probe.called
    /\ probe' = [probe EXCEPT
                    !.called = TRUE,
                    !.out = GetOptionPriceCall(probe.use_real_prices,
                                probe.cached, probe.response,
                                probe.underlying_price, probe.strike,
                                probe.option_type, probe.days_to_expiry)]
    /\ UNCHANGED <<pc, cfg, data, i, date, current_capital, open_trade, trades,
                   equity_curve, exit_log, n_entries, result, last_close, peer>>

SpecPrice == InitPrice /\ [][ApplyGetOptionPrice]_vars

-----------------------------------------------------------------------------
(* The batches: run_all_strategies, scan_symbols_with_strategy and          *)
(* backtest_strategy_on_symbols                                             *)

BatchKinds ==
    {"run_all_strategies", "scan_symbols_with_strategy",
     "backtest_strategy_on_symbols"}

\* What an iteration meets: the constructor raises (no API key), run_backtest
\* raises, run_backtest returns.
RunOutcomes == {"init_raises", "run_raises", "returned"}

\* total_return of a run that returned, percent; the initial capital of the
\* batch and the capital a run leaves on its engine, cents.
BatchReturns == {-10, 25}
BatchCapital == 1000000
BatchFinalCapitals == {900000}

\* The total_return of the record written for a failed symbol: -1.0
FailedReturn == -100

\* the mutation of Except that catches nothing
ExceptNothing(outcome) == FALSE

\* except Exception as e: every exception of the try block is caught
Except(outcome) == TRUE

\* The try block up to the return of run_backtest: a new engine is constructed
\* with the batch's initial capital and the run is made on it.  engines counts
\* the engines constructed; the attempt tells the item, the engine of the run
\* (0: none) and the capital of that engine when the run started.
Attempted(b, outcome, final_capital) ==
    IF outcome = "init_raises"
    THEN [b EXCEPT !.attempts = Append(@, [item |-> b.k, engine |-> 0,
                                           capital_at_start |-> None,
                                           outcome |-> outcome])]
    ELSE [b EXCEPT !.engines = @ + 1,
                   !.left = final_capital,
                   !.attempts = Append(@, [item |-> b.k, engine |-> b.engines + 1,
                                           capital_at_start |-> BatchCapital,
                                           outcome |-> outcome])]

\* One iteration of the loop of run_all_strategies
RunAllStrategiesStep(b, outcome, total_return, final_capital) ==
    LET a == Attempted(b, outcome, final_capital)
    IN  IF outcome = "returned"
        THEN [a EXCEPT !.k = @ + 1,
                       !.results = Append(@, [item |-> b.k,
                                              total_return |-> total_return])]
        ELSE IF Except(outcome) THEN [a EXCEPT !.k = @ + 1]
        ELSE [a EXCEPT !.pc = "raised"]

\* One iteration of the loop of scan_symbols_with_strategy
ScanSymbolsStep(b, outcome, total_return, final_capital) ==
    LET a == Attempted(b, outcome, final_capital)
        record == [item |-> b.k, total_return |-> total_return]
    IN  IF outcome = "returned"
        THEN [a EXCEPT !.k = @ + 1,
                       !.results = Append(@, record),
                       !.all_results = Append(@, record)]
        ELSE IF Except(outcome)
        THEN [a EXCEPT !.k = @ + 1,
                       !.all_results = Append(@, [item |-> b.k,
                                                  total_return |-> FailedReturn])]
        ELSE [a EXCEPT !.pc = "raised"]

\* One iteration of the loop of backtest_strategy_on_symbols
BacktestOnSymbolsStep(b, outcome, total_return, final_capital) ==
    LET a == Attempted(b, outcome, final_capital)
    IN  IF outcome = "returned"
        THEN [a EXCEPT !.k = @ + 1,
                       !.results = Append(@, [item |-> b.k,
                                              total_return |-> total_return])]
        ELSE IF Except(outcome)
        THEN [a EXCEPT !.k = @ + 1,
                       !.results = Append(@, [item |-> b.k,
                                              total_return |-> FailedReturn])]
        ELSE [a EXCEPT !.pc = "raised"]

\* results.sort(key=lambda x: x['total_return'], reverse=True): a stable sort,
\* by insertion of each record behind the records that are not smaller
RECURSIVE SortByReturn(_)
SortByReturn(records) ==
    IF records = <<>> THEN <<>>
    ELSE LET n == Len(records)
             sorted == SortByReturn(SubSeq(records, 1, n - 1))
             ahead == Cardinality({j \in 1 .. Len(sorted) :
                          sorted[j].total_return >= records[n].total_return})
         IN  SubSeq(sorted, 1, ahead) \o <<records[n]>>
                 \o SubSeq(sorted, ahead + 1, Len(sorted))

InitBatch ==
    /\ pc = "probe"
    /\ IdleRun
    /\ probe \in [op : {"batch"}, kind : BatchKinds, pc : {"loop"}, k : {1},
                  engines : {0}, left : {None}, attempts : {<<>>},
                  results : {<<>>}, all_results : {<<>>}]

\* One iteration of the batch's loop on item k
BatchItem ==
    /\ pc = "probe"
    /\ probe.op = "batch"
    /\ probe.pc = "loop"
    /\ probe.k <= BatchSize
    /\ \E outcome \in RunOutcomes, total_return \in BatchReturns,
          final_capital \in BatchFinalCapitals :
          probe' = IF probe.kind = "run_all_strategies"
                   THEN RunAllStrategiesStep(probe, outcome, total_return, final_capital)
                   ELSE IF probe.kind = "scan_symbols_with_strategy"
                   THEN ScanSymbolsStep(probe, outcome, total_return, final_capital)
                   ELSE BacktestOnSymbolsStep(probe, outcome, total_return, final_capital)
    /\ UNCHANGED <<pc, cfg, data, i, date, current_capital, open_trade, trades,
                   equity_curve, exit_log, n_entries, result, last_close, peer>>

\* The loop is over: run_all_strategies sorts its results; the batch returns
BatchReturn ==
    /\ pc = "probe"
    /\ probe.op = "batch"
    /\ probe.pc = "loop"
    /\ probe.k > BatchSize
    /\ probe' = [probe EXCEPT
                    !.pc = "returned",
                    !.results = IF probe.kind = "run_all_strategies"
                                THEN SortByReturn(@) ELSE @]
    /\ UNCHANGED <<pc, cfg, data, i, date, current_capital, open_trade, trades,
                   equity_curve, exit_log, n_entries, result, last_close, peer>>

SpecBatch == InitBatch /\ [][BatchItem \/ BatchReturn]_vars

-----------------------------------------------------------------------------
(* A run past the 50-day warm-up, with a named signal or a weight map      *)

\* The days on which the series moves.  On every other day the close is the
\* close of the day before, one calendar day later, and the indicators are
\* neutral.  No live quote is found on any day.
ActiveDays == {20, 21, 50, 51}

WarmHoldingDays == {10, 30, 45}

WarmPricesAt(idx) ==
    IF idx \in ActiveDays THEN Prices
    ELSE IF idx = 0 THEN {10000} ELSE {last_close}

WarmGapsAt(idx) == IF idx \in ActiveDays /\ idx # 20 /\ idx # 50 THEN Gaps ELSE {1}

\* The row of _calculate_indicators, and with a weight map the row of
\* calculate_all_indicators, which holds the columns of both.
WarmRow(idx, current_price, rsi, williams_r, with_all) ==
    LET bb_width == IF idx < BbWindow - 1 THEN NaN ELSE 800
        warm_rsi == IF idx < RsiWindow - 1 THEN NaN ELSE rsi
    IN  IF with_all
        THEN [bb_percentile |-> NaN]
                 @@ [SignalFrame(current_price, warm_rsi,
                                 IF idx < RsiWindow - 1 THEN NaN ELSE williams_r,
                                 <<50, 20>>, <<30, 10>>, QuietColumns)
                        EXCEPT !.bb_width_pct = NaN]
                 @@ [bb_width |-> bb_width]
        ELSE [rsi |-> warm_rsi, bb_width |-> bb_width, bb_percentile |-> NaN]

WarmRowsAt(idx, current_price, with_all) ==
    IF idx \in ActiveDays
    THEN {WarmRow(idx, current_price, rsi, williams_r, with_all) :
             rsi \in {15, 20, 50},
             williams_r \in IF with_all THEN {-90, -50} ELSE {-50}}
    ELSE {WarmRow(idx, current_price, 50, -50, with_all)}

InitWarm ==
    /\ pc = "start"
    /\ cfg \in [initial_capital : InitialCapitals,
                strategy : {"long_put"},
                entry_signal : {"rsi_oversold"} \cup DOMAIN EntryWeightMaps,
                profit_target : ProfitTargets,
                stop_loss : StopLosses,
                max_holding_days : WarmHoldingDays,
                position_size : PositionSizes]
    /\ data = [n_bars |-> WarmBars, hour |-> 0]
    /\ i = 0
    /\ date = 0
    /\ current_capital = cfg.initial_capital
    /\ open_trade = NoTrade
    /\ trades = <<>>
    /\ equity_curve = <<>>
    /\ exit_log = <<>>
    /\ n_entries = 0
    /\ result = NoResult
    /\ last_close = None
    /\ probe = NoProbe
    /\ peer = [role |-> "rows", row |-> [rsi |-> NaN]]

\* One iteration of the day loop; the day's row is kept in peer
WarmDay ==
    /\ peer.role = "rows"
    /\ \E current_price \in WarmPricesAt(i), gap \in WarmGapsAt(i) :
          \E row \in WarmRowsAt(i, current_price, IsDict(cfg.entry_signal)) :
              /\ Day(current_price, gap, row, None, None, "long_put")
              /\ peer' = [role |-> "rows", row |-> row]

WarmEnd ==
    /\ peer.role = "rows"
    /\ FinishRun(None)
    /\ UNCHANGED peer

NextWarm == StartLoop \/ WarmDay \/ WarmEnd

SpecWarm == InitWarm /\ [][NextWarm]_vars

-----------------------------------------------------------------------------
(* The strike of a new position on its own: lines 282-312 on one row       *)

\* Entry prices in cents: low-priced shares, the edges of the four rounding
\* bands of _round_strike, and prices well inside them
StrikeSpots == {30, 300, 448, 452, 1000, 2500, 4760, 5000, 9990, 10000, 11905, 25000}

\* The columns of the day's row the strike selection reads: bb_width in basis
\* points, rsi in points, bb_percentile in thousandths
StrikeRows ==
    [bb_width : {100, 300, 500, 700, NaN},
     rsi : {10, 50, 95, NaN},
     bb_percentile : {100, 500, 900, NaN}]

InitStrike ==
    /\ pc = "probe"
    /\ IdleRun
    /\ probe \in [op : {"strike"}, current_price : StrikeSpots,
                  current_strategy : {"long_call", "long_put"},
                  row : StrikeRows, called : {FALSE}, strike : {None}]

ApplySelectStrike ==
    /\ pc = "probe"
    /\ probe.op = "strike"
    /\ ~probe.called
    /\ probe' = [probe EXCEPT !.called = TRUE,
                              !.strike = SelectStrike(probe.current_price,
                                             probe.current_strategy, probe.row)]
    /\ UNCHANGED <<pc, cfg, data, i, date, current_capital, open_trade, trades,
                   equity_curve, exit_log, n_entries, result, last_close, peer>>

SpecStrike == InitStrike /\ [][ApplySelectStrike]_vars

-----------------------------------------------------------------------------
(* The monitor cache: MonitorCache and the two callers that save a symbol  *)

CacheSymbols == {"AAPL", "MSFT"}

\* An entry of monitor_data.json: present is FALSE when the symbol has no key,
\* has_curve when the entry has the key 'equity_curve'
NoEntry ==
    [present |-> FALSE, has_curve |-> FALSE, dates |-> <<>>, values |-> <<>>,
     final_value |-> None]

CurveEntry(dates, values, final_value) ==
    [present |-> TRUE, has_curve |-> TRUE, dates |-> dates, values |-> values,
     final_value |-> final_value]

\* cached_data of the callers: the metrics of the symbol, no 'equity_curve'
MetricsEntry(final_value) ==
    [present |-> TRUE, has_curve |-> FALSE, dates |-> <<>>, values |-> <<>>,
     final_value |-> final_value]

\* save_symbol_data: the entry replaces whatever the symbol had, and the
\* symbol's last update date becomes today
SaveSymbolData(store, symbol, entry, today) ==
    [cache |-> [store.cache EXCEPT ![symbol] = entry],
     last_update |-> [store.last_update EXCEPT ![symbol] = today]]

IndexOf(seq, x) == CHOOSE k \in 1 .. Len(seq) : seq[k] = x

\* update_equity_curve: append the point, or overwrite the value of its date
UpdateEquityCurve(store, symbol, new_data_point, today) ==
    LET existing_data == store.cache[symbol]
        dates == IF existing_data.present /\ existing_data.has_curve
                 THEN existing_data.dates ELSE <<>>
        values == IF existing_data.present /\ existing_data.has_curve
                  THEN existing_data.values ELSE <<>>
        known == \E k \in 1 .. Len(dates) : dates[k] = new_data_point.date
        new_dates == IF known THEN dates ELSE Append(dates, new_data_point.date)
        new_values == IF known
                      THEN [values EXCEPT ![IndexOf(dates, new_data_point.date)] =
                                new_data_point.value]
                      ELSE Append(values, new_data_point.value)
    IN  SaveSymbolData(store, symbol,
                       CurveEntry(new_dates, new_values, existing_data.final_value),
                       today)

NoSeries == [found |-> FALSE, dates |-> <<>>, values |-> <<>>]

\* get_equity_curve_series: None without an entry, a curve or a point
GetEquityCurveSeries(store, symbol) ==
    LET entry == store.cache[symbol]
    IN  IF ~entry.present \/ ~entry.has_curve THEN NoSeries
        ELSE IF entry.dates = <<>> \/ entry.values = <<>> THEN NoSeries
        ELSE [found |-> TRUE, dates |-> entry.dates, values |-> entry.values]

\* run_monitor_save.py lines 139-149: the metrics are saved as the entry
SaveMetrics(store, symbol, final_value, today) ==
    SaveSymbolData(store, symbol, MetricsEntry(final_value), today)

\* monitor_realtime_updater.py lines 695-709: the metrics are saved with the
\* 'equity_curve' of the entry already cached
SaveMetricsKeepingCurve(store, symbol, final_value, today) ==
    LET existing_cached_data == store.cache[symbol]
    IN  IF existing_cached_data.present /\ existing_cached_data.has_curve
        THEN SaveSymbolData(store, symbol,
                 CurveEntry(existing_cached_data.dates, existing_cached_data.values,
                            final_value), today)
        ELSE SaveSymbolData(store, symbol, MetricsEntry(final_value), today)

\* Dates are day numbers, values cents
CurveDates == {1, 2, 3}

CurveValues == {1000000, 1050000}

\* equity_curve_data: one point per day of the run, the dates increasing
PointLists ==
    {<<[date |-> d, value |-> v]>> : d \in CurveDates, v \in CurveValues}
    \cup {<<[date |-> ds[1], value |-> v1], [date |-> ds[2], value |-> v2]>> :
             ds \in {x \in CurveDates \X CurveDates : x[1] < x[2]},
             v1 \in CurveValues, v2 \in CurveValues}

Today == 4

\* What monitor_data.json and last_update.json hold before the call
InitialStores ==
    {[cache |-> [s \in CacheSymbols |-> IF s = "AAPL" THEN a ELSE m],
      last_update |-> [s \in CacheSymbols |-> IF s = "AAPL" THEN ua ELSE None]] :
        a \in {NoEntry, MetricsEntry(1000000), CurveEntry(<<1>>, <<1000000>>, 1000000)},
        m \in {NoEntry, CurveEntry(<<1>>, <<990000>>, 990000)},
        ua \in {None, 1}}

InitCache ==
    /\ pc = "probe"
    /\ IdleRun
    /\ probe \in [op : {"cache"},
                  caller : {"run_monitor_and_save", "update_monitor_data"},
                  pc : {"points"}, symbol : {"AAPL"},
                  equity_curve_data : PointLists, k : {1},
                  store : InitialStores, series : {NoSeries}]

\* One turn of the loop over the points: cache_manager.update_equity_curve
WritePoint ==
    /\ pc = "probe"
    /\ probe.op = "cache"
    /\ probe.pc = "points"
    /\ probe.k <= Len(probe.equity_curve_data)
    /\ probe' = [probe EXCEPT
                    !.k = probe.k + 1,
                    !.store = UpdateEquityCurve(probe.store, probe.symbol,
                                  probe.equity_curve_data[probe.k], Today)]
    /\ UNCHANGED <<pc, cfg, data, i, date, current_capital, open_trade, trades,
                   equity_curve, exit_log, n_entries, result, last_close, peer>>

\* After the loop the caller saves the symbol's metrics with save_symbol_data
SaveSymbolMetrics ==
    /\ pc = "probe"
    /\ probe.op = "cache"
    /\ probe.pc = "points"
    /\ probe.k > Len(probe.equity_curve_data)
    /\ LET final_value ==
               probe.equity_curve_data[Len(probe.equity_curve_data)].value
       IN  probe' = [probe EXCEPT
                        !.pc = "saved",
                        !.store = IF probe.caller = "run_monitor_and_save"
                                  THEN SaveMetrics(probe.store, probe.symbol,
                                                   final_value, Today)
                                  ELSE SaveMetricsKeepingCurve(probe.store,
                                           probe.symbol, final_value, Today)]
    /\ UNCHANGED <<pc, cfg, data, i, date, current_capital, open_trade, trades,
                   equity_curve, exit_log, n_entries, result, last_close, peer>>

\* A reader of the cache asks for the symbol's equity curve
ReadSeries ==
    /\ pc = "probe"
    /\ probe.op = "cache"
    /\ probe.pc = "saved"
    /\ probe' = [probe EXCEPT
                    !.pc = "read",
                    !.series = GetEquityCurveSeries(probe.store, probe.symbol)]
    /\ UNCHANGED <<pc, cfg, data, i, date, current_capital, open_trade, trades,
                   equity_curve, exit_log, n_entries, result, last_close, peer>>

SpecCache == InitCache /\ [][WritePoint \/ SaveSymbolMetrics \/ ReadSeries]_vars

-----------------------------------------------------------------------------
(* Claims                                                                  *)

PositionOpen == open_trade # NoTrade /\ open_trade.status = "open"

Returned == pc = "done" /\ result.status = "returned"

\* C1: at most one position is open at any point of the run: the positions
\* opened and not yet closed number one when open_trade holds an open
\* position and none otherwise, and the holding intervals of the trades do
\* not overlap: a trade is entered no earlier than the day its predecessor
\* exited.
C1_SinglePosition ==
    /\ n_entries - Len(trades) = (IF PositionOpen THEN 1 ELSE 0)
    /\ \A k \in 1 .. Len(trades) :
          /\ trades[k].entry_date <= trades[k].exit_date
          /\ k < Len(trades) => trades[k].exit_date <= trades[k + 1].entry_date
    /\ (PositionOpen /\ trades # <<>>) =>
          trades[Len(trades)].exit_date <= open_trade.entry_date

\* C1 witness: a position was closed and the next one opened on the same day.
C1_Witness ==
    /\ PositionOpen
    /\ trades # <<>>
    /\ trades[Len(trades)].exit_date = open_trade.entry_date

\* C2: the exit reason logged is the first condition, in the order profit
\* target, stop loss, max holding, expiry, that held on the values the exit
\* check decided on.
C2_ExitPriority ==
    \A k \in 1 .. Len(exit_log) :
        LET e == exit_log[k]
            a == RatGePct(e.pnl_pct, cfg.profit_target)
            b == RatLePct(e.pnl_pct, cfg.stop_loss)
            c == e.holding_days >= cfg.max_holding_days
            d == e.days_to_expiry <= 0
        IN  /\ e.holding_days = trades[k].exit_date - trades[k].entry_date
            /\ e.days_to_expiry = trades[k].expiry - trades[k].exit_date
            /\ e.reason = (IF a THEN "Profit Target"
                           ELSE IF b THEN "Stop Loss"
                           ELSE IF c THEN "Max Holding"
                           ELSE "Expiry")
            /\ a \/ b \/ c \/ d

\* C2 witness: the profit target and the maximum holding time both held on
\* the day of an exit.
C2_Witness ==
    \E k \in 1 .. Len(exit_log) :
        /\ exit_log[k].reason = "Profit Target"
        /\ exit_log[k].holding_days >= cfg.max_holding_days

\* C3: the trade record tells the exit reason: two trades closed in the loop
\* for different reasons differ in the tag the record carries (its status).
C3_ReasonInRecord ==
    \A k1, k2 \in 1 .. Len(exit_log) :
        trades[k1].status = trades[k2].status
            => exit_log[k1].reason = exit_log[k2].reason

\* C4: when run_backtest returns, no position is open, every position opened
\* is in trades exactly once, only the last trade can be 'expired', and an
\* 'expired' trade was closed on the last day at the last close.
C4_EndOfRunClosure ==
    Returned =>
        /\ ~PositionOpen
        /\ Len(trades) = n_entries
        /\ result.num_trades = n_entries
        /\ result.trades = trades
        /\ \A k \in 1 .. Len(trades) :
              /\ trades[k].status \in {"closed", "expired"}
              /\ k < Len(trades) =>
                    /\ trades[k].status = "closed"
                    /\ trades[k].entry_date < trades[k + 1].entry_date
              /\ trades[k].status = "closed" <=> k <= Len(exit_log)
              /\ trades[k].status = "expired" =>
                    /\ trades[k].exit_date = date
                    /\ trades[k].exit_underlying = last_close

\* C4 witness: a run returned with a trade closed in the loop and a trade
\* closed at the end of the run.
C4_Witness ==
    /\ Returned
    /\ Len(trades) >= 2
    /\ trades[Len(trades)].status = "expired"

\* C5: every trade of the result has pnl = (exit_price - entry_price) *
\* shares * 100 and pnl_pct = pnl / (entry_price * shares * 100).
C5_PnlFormula ==
    \A k \in 1 .. Len(trades) :
        LET t == trades[k]
        IN  /\ t.pnl = (t.exit_price - t.entry_price) * t.shares * 100
            /\ t.entry_price * t.shares # 0
            /\ RatEq(t.pnl_pct, Rat(t.pnl, t.entry_price * t.shares * 100))

\* C5 witness: a trade closed in the loop and a trade closed at the end of the
\* run, both with a pnl that is not zero, one of more than one contract.
C5_Witness ==
    /\ Returned
    /\ Len(trades) >= 2
    /\ trades[1].pnl # 0
    /\ trades[Len(trades)].pnl # 0
    /\ trades[Len(trades)].status = "expired"
    /\ \E k \in 1 .. Len(trades) : trades[k].shares > 1

\* The unrealized P&L of the position open at the start of the day whose bar
\* is (spot, day): its premium at that spot and at the whole days left from
\* the bar's timestamp (day, data.hour) to the expiry date, minus the entry
\* premium, times quantity times 100.
UnrealizedAtStartOfDay(trade, spot, day) ==
    IF trade = NoTrade THEN 0
    ELSE LET days_left == ((trade.expiry - day) * 24 - data.hour) \div 24
             premium == EstimateOptionValue(spot, trade.strike, trade.strategy,
                                            days_left)
         IN  (premium - trade.entry_price) * trade.shares * 100

C7_QuantityAtLeastOne ==
    /\ \A k \in 1 .. Len(trades) : trades[k].shares >= 1
    /\ PositionOpen =>
          /\ open_trade.shares >= 1
          /\ open_trade.shares =
                Max((current_capital * cfg.position_size)
                        \div (open_trade.entry_price * 100 * 100), 1)

\* C8 as claimed: the estimate is never below the 0.05 floor.
C8_NeverBelowFloor ==
    (probe.op = "estimate" /\ probe.ret # None) => probe.ret >= TimeValueFloor

\* C8 as amended: with days_to_expiry > 0 the estimate is at least the 0.05
\* floor; with days_to_expiry <= 0 the estimate is the intrinsic value, which
\* is 0 for a strike at or out of the money.
C8_FloorBeforeExpiry ==
    (probe.op = "estimate" /\ probe.ret # None) =>
        IF probe.days_to_expiry > 0
        THEN probe.ret >= TimeValueFloor
        ELSE /\ probe.ret >= 0
             /\ probe.ret = (IF probe.option_type = "long_call"
                             THEN Max(probe.underlying_price - probe.strike, 0)
                             ELSE Max(probe.strike - probe.underlying_price, 0))

\* C8 witness: an estimate with days to expiry left on which the floor binds.
C8_Witness ==
    /\ probe.op = "estimate"
    /\ probe.ret = TimeValueFloor
    /\ probe.days_to_expiry > 0

\* C9: a series of fewer than 20 bars never enters the day loop and returns
\* the flat result.
C9_ShortHistory ==
    (pc # "probe" /\ data.n_bars < MinBars) =>
        /\ pc \in {"start", "done"}
        /\ i = 0
        /\ equity_curve = <<>>
        /\ trades = <<>>
        /\ n_entries = 0
        /\ current_capital = cfg.initial_capital
        /\ pc = "start" => ENABLED ShortHistory
        /\ pc = "done" =>
              /\ result.status = "returned"
              /\ result.trades = <<>>
              /\ result.num_trades = 0
              /\ result.total_pnl = 0
              /\ result.total_return.n = 0
              /\ result.final_capital = cfg.initial_capital
              /\ result.initial_capital = cfg.initial_capital
              /\ result.max_drawdown.n = 0
              /\ result.sharpe_ratio = "zero"

\* C9 witness: the run over a series of 5 bars has returned.
C9_Witness ==
    /\ Returned
    /\ data.n_bars = 5

C14_DrawdownNotPositive ==
    Returned =>
        /\ result.max_drawdown.d > 0
        /\ result.max_drawdown.n <= 0

\* C14 witness: a run returned whose equity fell below zero: the drawdown is
\* deeper than -100%.
C14_Witness ==
    /\ Returned
    /\ \E k \in 1 .. Len(equity_curve) : equity_curve[k].equity < 0
    /\ result.max_drawdown.n < -result.max_drawdown.d

\* C15: the Sharpe ratio of a result is never NaN or infinite, and it is 0
\* when the equity curve is flat.
C15_SharpeDefined ==
    Returned =>
        /\ result.sharpe_ratio \in {"zero", "finite"}
        /\ (\A k \in 1 .. Len(equity_curve) :
                equity_curve[k].equity = cfg.initial_capital)
              => result.sharpe_ratio = "zero"

\* the sum of the pnl of the first k trades
RECURSIVE PnlOfFirst(_, _)
PnlOfFirst(ts, k) == IF k = 0 THEN 0 ELSE PnlOfFirst(ts, k - 1) + ts[k].pnl

\* C16: total_return = (final_capital - initial_capital) / initial_capital,
\* and final_capital = initial_capital + the pnl of all trades of the result.
C16_TotalReturn ==
    Returned =>
        /\ RatEq(result.total_return,
                 Rat(result.final_capital - result.initial_capital,
                     result.initial_capital))
        /\ result.final_capital =
              result.initial_capital
                  + PnlOfFirst(result.trades, Len(result.trades))

\* C16 witness: a result with a trade closed in the loop, a trade closed at
\* the end of the run and a final capital that differs from the initial one.
C16_Witness ==
    /\ Returned
    /\ Len(result.trades) >= 2
    /\ result.trades[Len(result.trades)].status = "expired"
    /\ result.trades[Len(result.trades)].pnl # 0
    /\ result.final_capital # result.initial_capital

\* C17: the profile returned is the one the five steps reach in the order
\* volatility, momentum, band percentile, time to expiry, risk appetite, and
\* each of the four adjustments moves the profile by at most one rung.
C17_OneRungPerAdjustment ==
    (probe.op = "select" /\ probe.ret # "") =>
        /\ probe.ret = probe.steps[5]
        /\ \A k \in 1 .. 4 :
              Abs(Rung(probe.steps[k + 1]) - Rung(probe.steps[k])) <= 1

\* The neutral market state: no indicator rule leans either way.
NeutralFrame(f) ==
    /\ f.rsi = 50
    /\ f.macd = f.macd_signal
    /\ f.prev_macd = f.prev_macd_signal
    /\ f.close = f.ma5 /\ f.close = f.ma20 /\ f.close = f.ma50
    /\ f.prev_ma5 = f.prev_ma20
    /\ f.price_change >= -30 /\ f.price_change <= 30
    /\ 2 * f.close = f.bb_upper + f.bb_lower
    /\ f.williams_r = -50

\* C18: with 50 days of history, a neutral market state and no weight map
\* select_direction returns 'long_call' with confidence 0.5, and the
\* confidence it returns is always in [0, 1].
C18_NeutralDefault ==
    (probe.op = "direction" /\ probe.ret.direction # "") =>
        /\ probe.ret.confidence.d > 0
        /\ probe.ret.confidence.n >= 0
        /\ probe.ret.confidence.n <= probe.ret.confidence.d
        /\ (probe.idx >= 50 /\ NeutralFrame(probe.frame) /\ probe.signal_weights = {})
              => /\ probe.ret.direction = "long_call"
                 /\ RatEq(probe.ret.confidence, Rat(1, 2))

\* The sum of weight * strength over the entries of a weight map whose signal
\* is triggered and named in names
RECURSIVE WeightedStrength(_, _, _, _)
WeightedStrength(signal_weights, names, idx, f) ==
    IF signal_weights = {} THEN Rat(0, 1)
    ELSE LET x == CHOOSE y \in signal_weights : TRUE
             hit == DetectSignal(x[1], idx, f)
             rest == WeightedStrength(signal_weights \ {x}, names, idx, f)
         IN  IF hit.triggered /\ x[1] \in names
             THEN RatAdd(RatMul(Rat(x[2], 1000), hit.strength), rest)
             ELSE rest

\* C19: the score is the sum of weight * strength over exactly the triggered
\* signals of the weight map; the direction is long_call when the bullish
\* partition's sum exceeds the bearish partition's, long_put when it is
\* smaller, and on a tie long_call exactly when RSI < 50.
C19_ScoreAndDirection ==
    (probe.op = "evaluate" /\ probe.called) =>
        LET bull == WeightedStrength(probe.signal_weights,
                        {"rsi_oversold", "ma_crossover", "macd_crossover",
                         "williams_oversold", "momentum_reversal"},
                        probe.idx, probe.frame)
            bear == WeightedStrength(probe.signal_weights,
                        {"rsi_overbought", "ma_crossunder", "williams_overbought"},
                        probe.idx, probe.frame)
        IN  /\ RatEq(probe.ret.total_score,
                     WeightedStrength(probe.signal_weights, SignalNames,
                                      probe.idx, probe.frame))
            /\ {d.name : d \in probe.ret.signal_details}
                  = {x[1] : x \in {y \in probe.signal_weights :
                        DetectSignal(y[1], probe.idx, probe.frame).triggered}}
            /\ probe.ret.direction =
                  IF RatLess(bear, bull) THEN "long_call"
                  ELSE IF RatLess(bull, bear) THEN "long_put"
                  ELSE IF probe.frame.rsi # NaN /\ probe.frame.rsi < 50 THEN "long_call"
                  ELSE "long_put"

\* A momentum reversal decides the direction against a smaller bearish sum,
\* with a signal of neither partition in the score.
C19_Witness ==
    /\ probe.op = "evaluate" /\ probe.called
    /\ probe.ret.direction = "long_call"
    /\ {"momentum_reversal", "williams_overbought", "volume_surge"}
          = {d.name : d \in probe.ret.signal_details}

\* C20: for each registered signal and every day index the strength is in
\* [0, 1], and it is 0.0 whenever the signal is not triggered.
C20_StrengthInUnitInterval ==
    (probe.op = "detect" /\ probe.called /\ probe.signal_name \in SignalNames) =>
        /\ probe.ret.strength.d > 0
        /\ probe.ret.strength.n >= 0
        /\ probe.ret.strength.n <= probe.ret.strength.d
        /\ ~probe.ret.triggered => probe.ret.strength.n = 0

\* The number of leading bars two series have in common
RECURSIVE CommonBars(_, _)
CommonBars(series_1, series_2) ==
    IF series_1 = <<>> \/ series_2 = <<>> THEN 0
    ELSE IF Head(series_1) # Head(series_2) THEN 0
    ELSE 1 + CommonBars(Tail(series_1), Tail(series_2))

\* C11: a second run on the same series, with the same configuration and the
\* same quote answers, returns the result of the first: the same trades,
\* equity curve, final capital and metrics.
C11_Determinism ==
    (peer.role = "replay" /\ peer.run = 2 /\ pc = "done"
        /\ peer.series[1] = peer.series[2])
        => result = peer.first

C11_Witness ==
    /\ peer.role = "replay" /\ peer.run = 2 /\ pc = "done"
    /\ peer.series[1] = peer.series[2]
    /\ Len(result.trades) = 1
    /\ result.final_capital # result.initial_capital

\* C12: on every day up to the last one two series have in common, the run
\* on the second series leaves the position (direction, strike, premium,
\* quantity), the closed trades, the exit decisions and the equity points that
\* the run on the first series left on that day.
C12_NoLookahead ==
    (peer.role = "replay" /\ peer.run = 2 /\ pc = "loop" /\ i >= 1
        /\ i <= CommonBars(peer.series[1], peer.series[2]))
        => Snapshot(open_trade, trades, equity_curve, exit_log, n_entries,
                    current_capital) = peer.days[i]

\* The two series part after day 20, on which both runs entered a position.
C12_Witness ==
    /\ peer.role = "replay" /\ peer.run = 2 /\ pc = "loop"
    /\ i = MinBars + 1
    /\ CommonBars(peer.series[1], peer.series[2]) = MinBars + 1
    /\ Len(peer.series[1]) > i /\ Len(peer.series[2]) > i
    /\ open_trade # NoTrade
    /\ open_trade = peer.days[i].open_trade

\* C13: of two calls interleaved on one object, each returns a final capital
\* equal to the initial capital plus the sum of the pnl of its own trades.
C13_RunIsolation ==
    peer.role = "frame" =>
        /\ result.status = "returned" =>
              result.final_capital = result.initial_capital + SumPnl(result.trades)
        /\ peer.result.status = "returned" =>
              peer.result.final_capital
                  = peer.result.initial_capital + SumPnl(peer.result.trades)

\* C21: _get_option_price returns the live quote only when the lookup yields
\* a positive price; after an exception, a timeout, an HTTP error, an answer
\* without data or a non-positive price it returns the estimate for the same
\* spot, strike, direction and days to expiry; it always returns a price.
C21_ValuationFallback ==
    (probe.op = "price" /\ probe.called /\ probe.out.fetched) =>
        LET estimate == EstimateOptionValue(probe.underlying_price, probe.strike,
                            probe.option_type, probe.days_to_expiry)
            found == probe.out.lookup
            positive == ~found.raised /\ found.ret # None /\ found.ret > 0
        IN  /\ probe.out.ret # None
            /\ probe.out.ret >= 0
            /\ positive => probe.out.ret = found.ret
            /\ ~positive => probe.out.ret = estimate
            /\ (probe.cached = None /\ probe.response.kind \in ResponseKinds)
                  => probe.out.ret = estimate
            /\ (probe.cached = None /\ probe.response.kind = "results"
                    /\ probe.response.c # None /\ probe.response.c < 0)
                  => probe.out.ret = estimate

\* C21 witness: the provider answered with a negative close and the estimate
\* was returned.
C21_Witness ==
    /\ probe.op = "price" /\ probe.called /\ probe.out.fetched
    /\ probe.cached = None
    /\ probe.response.kind = "results"
    /\ probe.out.lookup.ret # None
    /\ probe.out.lookup.ret < 0
    /\ probe.out.ret = EstimateOptionValue(probe.underlying_price, probe.strike,
                           probe.option_type, probe.days_to_expiry)
    /\ probe.out.ret > 0

\* C23: on an object constructed with use_real_prices=False the lookup is
\* never called and _get_option_price returns the estimate.
C23_EstimateWhenDisabled ==
    (probe.op = "price" /\ probe.called /\ ~probe.use_real_prices) =>
        /\ ~probe.out.fetched
        /\ probe.out.ret = EstimateOptionValue(probe.underlying_price,
                               probe.strike, probe.option_type,
                               probe.days_to_expiry)

\* C22: a batch never aborts: when the attempt on one strategy or symbol
\* raises, the exception is caught and every remaining item is attempted, in
\* order and once; every run is made on an engine constructed for it, with the
\* batch's initial capital; the batch returns the results of the runs that
\* returned.
C22_BatchNeverAborts ==
    probe.op = "batch" =>
        /\ probe.pc # "raised"
        /\ Len(probe.attempts) = probe.k - 1
        /\ \A j \in 1 .. Len(probe.attempts) :
              /\ probe.attempts[j].item = j
              /\ probe.attempts[j].outcome # "init_raises" =>
                    /\ probe.attempts[j].capital_at_start = BatchCapital
                    /\ \A j2 \in 1 .. Len(probe.attempts) :
                          probe.attempts[j2].engine = probe.attempts[j].engine
                              => j2 = j
        /\ (probe.pc = "loop" /\ probe.k <= BatchSize) => ENABLED BatchItem
        /\ probe.pc = "returned" =>
              /\ Len(probe.attempts) = BatchSize
              /\ {r.item : r \in {probe.results[j] : j \in 1 .. Len(probe.results)}}
                    = {j \in 1 .. BatchSize :
                          \/ probe.attempts[j].outcome = "returned"
                          \/ probe.kind = "backtest_strategy_on_symbols"}

\* C22 witness: a batch returned whose first run raised and whose other runs
\* returned.
C22_Witness ==
    /\ probe.op = "batch"
    /\ probe.pc = "returned"
    /\ probe.attempts[1].outcome = "run_raises"
    /\ \A j \in 2 .. BatchSize : probe.attempts[j].outcome = "returned"
    /\ Len(probe.results) >= BatchSize - 1

\* The entry predicate of the configuration on a day's row: the rule of the
\* named signal, or a weighted-combination score of at least 0.3
EntryPredicate(row, signal_type, idx) ==
    IF signal_type = "rsi_oversold" THEN row.rsi # NaN /\ row.rsi < 30
    ELSE IF signal_type = "rsi_overbought" THEN row.rsi # NaN /\ row.rsi > 70
    ELSE IF signal_type = "bb_compression"
    THEN row.bb_percentile # NaN /\ row.bb_percentile < 300
    ELSE LET score == WeightedStrength(EntryWeightMaps[signal_type], SignalNames,
                                       idx, row)
         IN  score.n * 10 >= 3 * score.d

\* C24: on day i a position is opened if and only if no position is open
\* once the day's exit check is done, i >= 20 and the entry predicate
\* triggers on the day's row; nothing is opened below index 20; the check
\* also runs on the day on which the previous position was closed.
C24_EntryTransition ==
    [][i' = i + 1 =>
        LET flat == open_trade = NoTrade \/ Len(trades') = Len(trades) + 1
            opened == n_entries' = n_entries + 1
        IN  /\ opened <=> (/\ flat
                           /\ i >= 20
                           /\ EntryPredicate(peer'.row, cfg.entry_signal, i))
            /\ ~opened => n_entries' = n_entries
            /\ opened => /\ open_trade' # NoTrade
                         /\ open_trade'.status = "open"
                         /\ open_trade'.entry_date = date'
            /\ (~opened /\ flat) => open_trade' = NoTrade
            /\ i < 20 => open_trade' = NoTrade]_vars

\* C24 witness: with a weight map, a position was closed and the next one
\* opened on the same day, on a score of exactly 0.3.
C24_Witness ==
    /\ peer.role = "rows"
    /\ IsDict(cfg.entry_signal)
    /\ PositionOpen
    /\ trades # <<>>
    /\ trades[Len(trades)].exit_date = open_trade.entry_date
    /\ peer.row.rsi = 15
    /\ peer.row.williams_r = -50

\* min(max_holding_days, 30): the calendar days a position can be held
HoldingLimit == IF cfg.max_holding_days < 30 THEN cfg.max_holding_days ELSE 30

ReadsUndefined(signal_name, f) ==
    \/ signal_name = "bb_compression" /\ f.bb_width_pct = NaN
    \/ signal_name \in {"rsi_oversold", "rsi_overbought"} /\ f.rsi = NaN
    \/ signal_name = "volume_surge" /\ f.volume_ratio = NaN
    \/ signal_name = "low_volatility" /\ f.atr_pct = NaN
    \/ signal_name \in {"williams_oversold", "williams_overbought"} /\ f.williams_r = NaN
    \/ signal_name = "cci_extreme" /\ f.cci = NaN
    \/ signal_name = "momentum_reversal" /\ (f.momentum = NaN \/ f.prev_momentum = NaN)

\* C26: at every day index below 50 detect_signal returns (False, 0.0) for
\* every signal name, registered or unknown, the combination score is 0 with
\* no triggered signal, and the entry check with a weight map is false; at
\* any index a detector that reads an undefined indicator value returns
\* (False, 0.0), and every call returns a result.
C26_WarmUpGuard ==
    (pc = "probe" /\ probe.op \in {"detect", "evaluate", "entry"} /\ probe.called) =>
        /\ (probe.op = "detect" /\ probe.idx < 50) =>
              probe.ret = [triggered |-> FALSE, strength |-> RatZero]
        /\ (probe.op = "evaluate" /\ probe.idx < 50) =>
              /\ RatEq(probe.ret.total_score, RatZero)
              /\ probe.ret.signal_details = {}
        /\ (probe.op = "entry" /\ probe.idx < 50) => probe.ret = FALSE
        /\ (probe.op = "detect" /\ ReadsUndefined(probe.signal_name, probe.frame)) =>
              probe.ret = [triggered |-> FALSE, strength |-> RatZero]
        /\ probe.op = "detect" =>
              /\ probe.ret.triggered \in BOOLEAN
              /\ probe.ret # NoSignal
              /\ ~RatLess(probe.ret.strength, RatZero) \/ probe.ret.triggered

\* C26 witness: the entry check with a weight map was made at index 49 on a
\* row whose RSI and Williams %R are both oversold, and returned false.
C26_Witness ==
    /\ pc = "probe"
    /\ probe.op = "entry"
    /\ probe.called
    /\ probe.idx = 49
    /\ probe.frame.rsi = 20
    /\ probe.frame.williams_r = -90
    /\ probe.ret = FALSE

\* The fields of a position that are fixed at its entry
EntryTerms(trade) ==
    <<trade.entry_date, trade.strategy, trade.strike, trade.entry_price,
      trade.shares, trade.expiry, trade.entry_underlying>>

\* C27: every step of a run leaves the trades already appended as they are
\* and appends at most one; a step that appends none leaves the realized
\* capital unchanged (so neither a re-pricing day nor an entry changes it);
\* a step that appends one closes the position that was open, with its entry
\* terms unchanged, and changes the capital by exactly that trade's pnl; and
\* a day on which the open position is only re-priced leaves the position
\* unchanged.
C27_FrameOfDailySteps ==
    [][/\ Len(trades') \in {Len(trades), Len(trades) + 1}
       /\ \A k \in 1 .. Len(trades) : trades'[k] = trades[k]
       /\ Len(trades') = Len(trades) => current_capital' = current_capital
       /\ Len(trades') = Len(trades) + 1 =>
             /\ PositionOpen
             /\ EntryTerms(trades'[Len(trades')]) = EntryTerms(open_trade)
             /\ trades'[Len(trades')].status \in {"closed", "expired"}
             /\ current_capital' = current_capital + trades'[Len(trades')].pnl
       /\ (PositionOpen /\ PositionOpen' /\ Len(trades') = Len(trades)) =>
             open_trade' = open_trade
       /\ (~PositionOpen /\ PositionOpen') => current_capital' = current_capital]_vars

\* C27 witness: after a first trade was closed at a loss or a gain, a second
\* position was opened and has been re-priced on a later day, and the run
\* then closed it at the end of the data.
C27_Witness ==
    /\ peer.role = "rows"
    /\ Returned
    /\ Len(trades) = 2
    /\ trades[1].status = "closed"
    /\ trades[1].pnl # 0
    /\ trades[2].status = "expired"
    /\ trades[2].pnl # 0
    /\ trades[2].exit_date > trades[2].entry_date
    /\ current_capital = cfg.initial_capital + trades[1].pnl + trades[2].pnl

\* C28: after a run of at least 20 bars the last point of the equity curve
\* equals final_capital, that is, a position is closed, in the loop or at the
\* end of the run, at the value at which the day's equity point marked it.
C28_LastEquityIsFinalCapital ==
    (Returned /\ Len(equity_curve) >= MinBars) =>
        equity_curve[Len(equity_curve)].equity = result.final_capital

\* C29: every position is opened out of the money or at the money: for
\* every entry price > 0 and every selected profile the rounded strike of a
\* call is >= the entry price and the rounded strike of a put is <= it, so
\* the intrinsic value at entry is 0.
C29_OpenedOutOfTheMoney ==
    (pc = "probe" /\ probe.op = "strike" /\ probe.called) =>
        /\ probe.current_strategy = "long_call" => probe.strike >= probe.current_price
        /\ probe.current_strategy = "long_put" => probe.strike <= probe.current_price
        /\ Intrinsic(probe.current_price, probe.strike, probe.current_strategy) = 0

\* The series holds the point: its date once, with the point's value
SeriesHolds(series, point) ==
    /\ series.found
    /\ Cardinality({k \in 1 .. Len(series.dates) : series.dates[k] = point.date}) = 1
    /\ \E k \in 1 .. Len(series.dates) :
          series.dates[k] = point.date /\ series.values[k] = point.value

\* C30: after run_monitor_and_save has written a symbol's points with
\* update_equity_curve and saved its metrics with save_symbol_data, the
\* symbol's cache entry still contains every point written:
\* get_equity_curve_series returns them, each date once.
C30_CurveKeptAcrossSave ==
    (pc = "probe" /\ probe.op = "cache" /\ probe.pc = "read"
        /\ probe.caller = "run_monitor_and_save") =>
        \A k \in 1 .. Len(probe.equity_curve_data) :
            SeriesHolds(probe.series, probe.equity_curve_data[k])

====
